---- MODULE Spec2Model ----
(***************************************************************************)
(* Model of the hashgraph core of rust-hashgraph: the Graph store of       *)
(* src/graph/graph.rs (push_node, round and witness engine, fame decider,  *)
(* ancestry iterator).                                                     *)
(*                                                                         *)
(* Conventions.  A Rust HashMap is a TLA+ function whose DOMAIN is the key *)
(* set, a Vec is a sequence (index i of the Vec is index i+1 here), an     *)
(* Option is the empty tuple (None) or a one-element tuple (Some).         *)
(* An event hash is the digest of (payload, kind, author); the digest is   *)
(* taken to be injective, so the hash is modelled by the triple itself.    *)
(***************************************************************************)
EXTENDS Integers, Sequences, FiniteSets, TLC

\* ------------------------------------------------------------------------
\* Bounds of the model
\* ------------------------------------------------------------------------

\* Peer ids that may author events are 0 .. NumPeers-1
NumPeers == 2

\* Payloads of genesis events are 0 .. NumPayloads-1
NumPayloads == 2

\* Payloads of regular events are 0 .. NumRegularPayloads-1.  The graph reads
\* a payload only through the hash of its event, and two regular events of
\* one author never share their parents, so one payload value is enough to
\* build every shape of graph.
NumRegularPayloads == 1

\* No push is explored that would make the store larger than this
MaxEvents == 4

\* Largest coin_frequency handed to Graph::new
MaxCoinFrequency == 3

Peers == 0 .. (NumPeers - 1)

Payloads == 0 .. (NumPayloads - 1)

RegularPayloads == 0 .. (NumRegularPayloads - 1)

CoinFrequencies == 1 .. MaxCoinFrequency

\* The peer that constructs the graph.  Peer ids are interchangeable.
SelfIds == {0}

\* A peer id that never authors an event; it only serves to build the hash
\* of an event that can never be in the store.
StrangerPeer == NumPeers

VARIABLES all_events, peer_index, round_index, witnesses, round_of,
          self_id, coin_frequency, ret

vars == <<all_events, peer_index, round_index, witnesses, round_of,
          self_id, coin_frequency, ret>>

\* The fields of Graph that push_node and decide_fame_for_witness may change
graphState == <<all_events, peer_index, round_index, witnesses, round_of>>

\* ------------------------------------------------------------------------
\* Events and hashes
\* ------------------------------------------------------------------------

None == << >>

Some(x) == <<x>>

\* event::Kind: Genesis has no parents, Regular has Parents{self_parent, other_parent}
KindGenesis == << >>

KindRegular(self_parent, other_parent) == <<self_parent, other_parent>>

IsGenesisKind(kind) == kind = << >>

\* Digest of the fields of an event.
Hash(payload, kind, author) == <<payload, kind, author>>

\* Event::new: a fresh event has its hash computed and no children.
EventNew(payload, kind, author) ==
    [ payload        |-> payload,
      kind           |-> kind,
      author         |-> author,
      hash           |-> Hash(payload, kind, author),
      self_child     |-> None,
      other_children |-> << >> ]

\* PeerIndexEntry::new
PeerIndexEntryNew(genesis) == [ genesis |-> genesis, latest_event |-> genesis ]

\* PeerIndexEntry::add_latest
AddLatest(entry, hash) == [ entry EXCEPT !.latest_event = hash ]

\* HashMap::insert
MapInsert(m, k, v) == [ x \in (DOMAIN m) \cup {k} |-> IF x = k THEN v ELSE m[x] ]

\* The Graph value made of the given fields
MkGraph(ae, pi, ri, w, ro, cf) ==
    [ all_events |-> ae, peer_index |-> pi, round_index |-> ri,
      witnesses |-> w, round_of |-> ro, coin_frequency |-> cf ]

\* The Graph value of the current state
G == MkGraph(all_events, peer_index, round_index, witnesses, round_of, coin_frequency)

Max(a, b) == IF a >= b THEN a ELSE b

\* slice.contains for a sequence
SeqContains(s, x) == \E i \in 1 .. Len(s) : s[i] = x

SeqToSet(s) == { s[i] : i \in 1 .. Len(s) }

\* ------------------------------------------------------------------------
\* EventIter: iterator over the ancestors of an event
\* An iterator value is [node_list (a stack, top last), visited_events].
\* ------------------------------------------------------------------------

\* The loop of push_self_ancestors, entered at `event` for the call on
\* `event_hash`: the event is pushed, the hash the call was made with is
\* recorded as visited, and the walk follows self_parent until a genesis or a
\* visited self_parent.
RECURSIVE SelfAncestorsLoop(_, _, _, _)
SelfAncestorsLoop(ae, it, event_hash, event) ==
    LET pushed == [ node_list      |-> Append(it.node_list, event),
                    visited_events |-> it.visited_events \cup {event_hash} ]
        kind   == ae[event].kind
    IN  IF IsGenesisKind(kind)
        THEN pushed
        ELSE IF kind[1] \in pushed.visited_events
             THEN pushed
             ELSE SelfAncestorsLoop(ae, pushed, event_hash, kind[1])

\* push_self_ancestors that walks again from a hash it was already called with
PushSelfAncestorsRevisits(ae, it, event_hash) ==
    SelfAncestorsLoop(ae, it, event_hash, event_hash)

\* EventIter::push_self_ancestors
PushSelfAncestors(ae, it, event_hash) ==
    IF event_hash \in it.visited_events
    THEN it
    ELSE SelfAncestorsLoop(ae, it, event_hash, event_hash)

\* EventIter::new
EventIterNew(ae, ancestors_of) ==
    PushSelfAncestors(ae, [ node_list |-> << >>, visited_events |-> {} ], ancestors_of)

\* Graph::iter, for an event_hash that is in the store
GraphIter(ae, event_hash) ==
    LET e_iter == EventIterNew(ae, event_hash)
    IN  IF IsGenesisKind(ae[event_hash].kind)
        THEN e_iter
        ELSE PushSelfAncestors(ae, e_iter, event_hash)

\* EventIter::next that does not reach through the other_parent link
IterAfterNextSelfOnly(ae, it) ==
    [ it EXCEPT !.node_list = SubSeq(it.node_list, 1, Len(it.node_list) - 1) ]

\* EventIter::next on a non-empty stack: the iterator after the call.
\* The event returned is the old top of the stack.
IterAfterNext(ae, it) ==
    LET n      == Len(it.node_list)
        event  == it.node_list[n]
        popped == [ it EXCEPT !.node_list = SubSeq(it.node_list, 1, n - 1) ]
        kind   == ae[event].kind
    IN  IF IsGenesisKind(kind)
        THEN popped
        ELSE PushSelfAncestors(ae, popped, kind[2])

\* The sequence of events an iterator yields until next() returns None
RECURSIVE Drain(_, _)
Drain(ae, it) ==
    IF it.node_list = << >>
    THEN << >>
    ELSE <<it.node_list[Len(it.node_list)]>> \o Drain(ae, IterAfterNext(ae, it))

\* iter(event_hash) collected
IterSeq(ae, event_hash) == Drain(ae, GraphIter(ae, event_hash))

\* ------------------------------------------------------------------------
\* ancestor, see, strongly_see
\* ------------------------------------------------------------------------

\* Graph::ancestor (both hashes in the store)
Ancestor(g, target, potential_ancestor) ==
    SeqContains(IterSeq(g.all_events, target), potential_ancestor)

\* Graph::see
See(g, observer, target) == Ancestor(g, observer, target)

\* Graph::members_count
MembersCount(g) == Cardinality(DOMAIN g.peer_index)

\* strongly_see that counts the events in between, not their authors
StronglySeeCountsEvents(g, observer, target) ==
    LET events_seen == { x \in SeqToSet(IterSeq(g.all_events, observer)) :
                           See(g, x, target) }
        n == MembersCount(g)
    IN  Cardinality(events_seen) > ((2 * n) \div 3)

\* strongly_see that takes 2n/3 authors for a supermajority
StronglySeeAtLeast(g, observer, target) ==
    LET authors_seen == { g.all_events[e].author :
                            e \in { x \in SeqToSet(IterSeq(g.all_events, observer)) :
                                      See(g, x, target) } }
        n == MembersCount(g)
    IN  Cardinality(authors_seen) >= ((2 * n) \div 3)

\* Graph::strongly_see
StronglySee(g, observer, target) ==
    LET authors_seen == { g.all_events[e].author :
                            e \in { x \in SeqToSet(IterSeq(g.all_events, observer)) :
                                      See(g, x, target) } }
        n == MembersCount(g)
    IN  Cardinality(authors_seen) > ((2 * n) \div 3)

\* ------------------------------------------------------------------------
\* Round and witness engine
\* ------------------------------------------------------------------------

\* The value standing for a call that does not return (a panic)
Panicked == -1

\* determine_round that takes 2n/3 authors for a supermajority
RECURSIVE DetermineRoundAtLeast(_, _)
DetermineRoundAtLeast(g, event_hash) ==
    IF event_hash \notin DOMAIN g.all_events
    THEN Panicked
    ELSE
      LET event == g.all_events[event_hash]
      IN  IF IsGenesisKind(event.kind)
          THEN 0
          ELSE IF event_hash \in DOMAIN g.round_of
          THEN g.round_of[event_hash]
          ELSE
            LET rs == DetermineRoundAtLeast(g, event.kind[1])
                ro == DetermineRoundAtLeast(g, event.kind[2])
                r  == Max(rs, ro)
            IN  IF rs = Panicked \/ ro = Panicked \/ r + 1 > Len(g.round_index)
                THEN Panicked
                ELSE
                  LET round == { eh \in g.round_index[r + 1] : eh # event_hash }
                      witnesses_strongly_seen ==
                          { g.all_events[w].author :
                              w \in { e \in round : e \in DOMAIN g.witnesses
                                                    /\ StronglySee(g, event_hash, e) } }
                      n == MembersCount(g)
                  IN  IF Cardinality(witnesses_strongly_seen) >= ((2 * n) \div 3)
                      THEN r + 1
                      ELSE r

\* determine_round that advances by two rounds on a supermajority
RECURSIVE DetermineRoundSkipsRound(_, _)
DetermineRoundSkipsRound(g, event_hash) ==
    IF event_hash \notin DOMAIN g.all_events
    THEN Panicked
    ELSE
      LET event == g.all_events[event_hash]
      IN  IF IsGenesisKind(event.kind)
          THEN 0
          ELSE IF event_hash \in DOMAIN g.round_of
          THEN g.round_of[event_hash]
          ELSE
            LET rs == DetermineRoundSkipsRound(g, event.kind[1])
                ro == DetermineRoundSkipsRound(g, event.kind[2])
                r  == Max(rs, ro)
            IN  IF rs = Panicked \/ ro = Panicked \/ r + 1 > Len(g.round_index)
                THEN Panicked
                ELSE
                  LET round == { eh \in g.round_index[r + 1] : eh # event_hash }
                      witnesses_strongly_seen ==
                          { g.all_events[w].author :
                              w \in { e \in round : e \in DOMAIN g.witnesses
                                                    /\ StronglySee(g, event_hash, e) } }
                      n == MembersCount(g)
                  IN  IF Cardinality(witnesses_strongly_seen) > ((2 * n) \div 3)
                      THEN r + 2
                      ELSE r

\* Graph::determine_round.  rounds[r] is g.round_index[r + 1].  The call
\* panics on a hash that is not in the store (the unwrap of its lookup) and on
\* an index past the end of round_index.
RECURSIVE DetermineRound(_, _)
DetermineRound(g, event_hash) ==
    IF event_hash \notin DOMAIN g.all_events
    THEN Panicked
    ELSE
      LET event == g.all_events[event_hash]
      IN  IF IsGenesisKind(event.kind)
          THEN 0
          ELSE IF event_hash \in DOMAIN g.round_of
          THEN g.round_of[event_hash]
          ELSE
            LET rs == DetermineRound(g, event.kind[1])
                ro == DetermineRound(g, event.kind[2])
                r  == Max(rs, ro)
            IN  IF rs = Panicked \/ ro = Panicked \/ r + 1 > Len(g.round_index)
                THEN Panicked
                ELSE
                  LET round == { eh \in g.round_index[r + 1] : eh # event_hash }
                      witnesses_strongly_seen ==
                          { g.all_events[w].author :
                              w \in { e \in round : e \in DOMAIN g.witnesses
                                                    /\ StronglySee(g, event_hash, e) } }
                      n == MembersCount(g)
                  IN  IF Cardinality(witnesses_strongly_seen) > ((2 * n) \div 3)
                      THEN r + 1
                      ELSE r

\* Graph::round_of finds a round: in the cache, or else in round_index
RoundOfFinds(g, event_hash) ==
    \/ event_hash \in DOMAIN g.round_of
    \/ \E i \in 1 .. Len(g.round_index) : event_hash \in g.round_index[i]

\* Graph::round_of; Panicked when no round is found (the expect fails)
RoundOf(g, event_hash) ==
    IF event_hash \in DOMAIN g.round_of
    THEN g.round_of[event_hash]
    ELSE IF RoundOfFinds(g, event_hash)
    THEN (CHOOSE i \in 1 .. Len(g.round_index) :
            /\ event_hash \in g.round_index[i]
            /\ \A j \in 1 .. (i - 1) : event_hash \notin g.round_index[j]) - 1
    ELSE Panicked

\* Graph::determine_witness returns (it panics on a hash that is not in the
\* store, and when round_of panics)
DetermineWitnessReturns(g, event_hash) ==
    /\ event_hash \in DOMAIN g.all_events
    /\ \/ IsGenesisKind(g.all_events[event_hash].kind)
       \/ /\ RoundOf(g, event_hash) # Panicked
          /\ RoundOf(g, g.all_events[event_hash].kind[1]) # Panicked

\* determine_witness that takes an event of the round of its self_parent too
DetermineWitnessSameRound(g, event_hash) ==
    IF IsGenesisKind(g.all_events[event_hash].kind)
    THEN TRUE
    ELSE RoundOf(g, event_hash) >= RoundOf(g, g.all_events[event_hash].kind[1])

\* Graph::determine_witness, where it returns
DetermineWitness(g, event_hash) ==
    IF IsGenesisKind(g.all_events[event_hash].kind)
    THEN TRUE
    ELSE RoundOf(g, event_hash) > RoundOf(g, g.all_events[event_hash].kind[1])

\* ------------------------------------------------------------------------
\* Fame decider
\* ------------------------------------------------------------------------

\* The bit of the hash that a coin round uses.  The bytes of the digest are
\* not modelled; the bit is a fixed function of the hash that takes both values.
MiddleBit(hash) == (hash[1] + hash[3]) % 2 = 1

\* The witnesses of rounds[voter_round - 1] that y strongly sees
StronglySeenWitnesses(g, y_hash, voter_round) ==
    { h \in g.round_index[voter_round] :
        h \in DOMAIN g.witnesses /\ StronglySee(g, y_hash, h) }

VotesFor(g, y_hash, voter_round, prev_round_votes) ==
    Cardinality({ w \in StronglySeenWitnesses(g, y_hash, voter_round) :
                    w \in DOMAIN prev_round_votes /\ prev_round_votes[w] })

VotesAgainst(g, y_hash, voter_round, prev_round_votes) ==
    Cardinality({ w \in StronglySeenWitnesses(g, y_hash, voter_round) :
                    w \in DOMAIN prev_round_votes /\ ~prev_round_votes[w] })

\* The voting rounds when the coin rounds are those at a multiple of
\* coin_frequency + 1
RECURSIVE FameRoundsCoinLessOften(_, _, _, _)
FameRoundsCoinLessOften(g, r, d, prev_round_votes) ==
    IF r + d + 1 > Len(g.round_index)
    THEN "Undecided"
    ELSE
      LET voter_round     == r + d
          round_witnesses == { e \in g.round_index[voter_round + 1] : e \in DOMAIN g.witnesses }
          n               == MembersCount(g)
          yes(y)          == VotesFor(g, y, voter_round, prev_round_votes)
          no(y)           == VotesAgainst(g, y, voter_round, prev_round_votes)
          v(y)            == yes(y) >= no(y)
          t(y)            == Max(yes(y), no(y))
      IN  IF d % (g.coin_frequency + 1) > 0
          THEN IF \E y \in round_witnesses : t(y) > ((2 * n) \div 3)
               THEN "Yes"
               ELSE FameRoundsCoinLessOften(g, r, d + 1, [ y \in round_witnesses |-> v(y) ])
          ELSE FameRoundsCoinLessOften(g, r, d + 1,
                          [ y \in round_witnesses |->
                              IF t(y) > ((2 * n) \div 3) THEN v(y) ELSE MiddleBit(y) ])

\* The voting rounds when a coin round decides on a supermajority as a normal
\* round does
RECURSIVE FameRoundsCoinDecides(_, _, _, _)
FameRoundsCoinDecides(g, r, d, prev_round_votes) ==
    IF r + d + 1 > Len(g.round_index)
    THEN "Undecided"
    ELSE
      LET voter_round     == r + d
          round_witnesses == { e \in g.round_index[voter_round + 1] : e \in DOMAIN g.witnesses }
          n               == MembersCount(g)
          yes(y)          == VotesFor(g, y, voter_round, prev_round_votes)
          no(y)           == VotesAgainst(g, y, voter_round, prev_round_votes)
          v(y)            == yes(y) >= no(y)
          t(y)            == Max(yes(y), no(y))
      IN  IF \E y \in round_witnesses : t(y) > ((2 * n) \div 3)
          THEN "Yes"
          ELSE FameRoundsCoinDecides(g, r, d + 1,
                          [ y \in round_witnesses |->
                              IF d % g.coin_frequency > 0 THEN v(y) ELSE MiddleBit(y) ])

\* The voting rounds with a supermajority of 2n/3 votes or more
RECURSIVE FameRoundsAtLeast(_, _, _, _)
FameRoundsAtLeast(g, r, d, prev_round_votes) ==
    IF r + d + 1 > Len(g.round_index)
    THEN "Undecided"
    ELSE
      LET voter_round     == r + d
          round_witnesses == { e \in g.round_index[voter_round + 1] : e \in DOMAIN g.witnesses }
          n               == MembersCount(g)
          yes(y)          == VotesFor(g, y, voter_round, prev_round_votes)
          no(y)           == VotesAgainst(g, y, voter_round, prev_round_votes)
          v(y)            == yes(y) >= no(y)
          t(y)            == Max(yes(y), no(y))
      IN  IF d % g.coin_frequency > 0
          THEN IF \E y \in round_witnesses : t(y) >= ((2 * n) \div 3)
               THEN "Yes"
               ELSE FameRoundsAtLeast(g, r, d + 1, [ y \in round_witnesses |-> v(y) ])
          ELSE FameRoundsAtLeast(g, r, d + 1,
                          [ y \in round_witnesses |->
                              IF t(y) >= ((2 * n) \div 3) THEN v(y) ELSE MiddleBit(y) ])

\* The voting rounds of is_famous_witness from distance d on, for a witness of
\* round r.  The witnesses of a round are visited in the order of a HashSet;
\* a normal round returns at the first witness with a supermajority, whatever
\* that order, and the votes a round records do not depend on it.
RECURSIVE FameRounds(_, _, _, _)
FameRounds(g, r, d, prev_round_votes) ==
    IF r + d + 1 > Len(g.round_index)
    THEN "Undecided"
    ELSE
      LET voter_round     == r + d
          round_witnesses == { e \in g.round_index[voter_round + 1] : e \in DOMAIN g.witnesses }
          n               == MembersCount(g)
          yes(y)          == VotesFor(g, y, voter_round, prev_round_votes)
          no(y)           == VotesAgainst(g, y, voter_round, prev_round_votes)
          v(y)            == yes(y) >= no(y)
          t(y)            == Max(yes(y), no(y))
      IN  IF d % g.coin_frequency > 0
          THEN IF \E y \in round_witnesses : t(y) > ((2 * n) \div 3)
               THEN "Yes"
               ELSE FameRounds(g, r, d + 1, [ y \in round_witnesses |-> v(y) ])
          ELSE FameRounds(g, r, d + 1,
                          [ y \in round_witnesses |->
                              IF t(y) > ((2 * n) \div 3) THEN v(y) ELSE MiddleBit(y) ])

\* is_famous_witness that takes a missing round r+1 for a decision
IsFamousWitnessMissingRound(g, event_hash) ==
    IF ~DetermineWitnessReturns(g, event_hash)
    THEN [ tag |-> "Panic", val |-> << >> ]
    ELSE IF ~DetermineWitness(g, event_hash)
    THEN [ tag |-> "Err", val |-> <<"NotWitness">> ]
    ELSE
      LET r == RoundOf(g, event_hash)
      IN  IF r + 2 > Len(g.round_index)
          THEN [ tag |-> "Ok", val |-> <<"Yes">> ]
          ELSE
            LET prev_round_votes ==
                  [ y_hash \in g.round_index[r + 2] |-> See(g, y_hash, event_hash) ]
            IN  [ tag |-> "Ok", val |-> <<FameRounds(g, r, 2, prev_round_votes)>> ]

\* is_famous_witness without its check that the event is a witness
IsFamousWitnessUnchecked(g, event_hash) ==
    IF ~DetermineWitnessReturns(g, event_hash)
    THEN [ tag |-> "Panic", val |-> << >> ]
    ELSE
      LET r == RoundOf(g, event_hash)
      IN  IF r + 2 > Len(g.round_index)
          THEN [ tag |-> "Ok", val |-> <<"Undecided">> ]
          ELSE
            LET prev_round_votes ==
                  [ y_hash \in g.round_index[r + 2] |-> See(g, y_hash, event_hash) ]
            IN  [ tag |-> "Ok", val |-> <<FameRounds(g, r, 2, prev_round_votes)>> ]

\* Graph::is_famous_witness, as [tag, val]: Ok(fame), Err(NotWitness) or a panic
IsFamousWitness(g, event_hash) ==
    IF ~DetermineWitnessReturns(g, event_hash)
    THEN [ tag |-> "Panic", val |-> << >> ]
    ELSE IF ~DetermineWitness(g, event_hash)
    THEN [ tag |-> "Err", val |-> <<"NotWitness">> ]
    ELSE
      LET r == RoundOf(g, event_hash)
      IN  IF r + 2 > Len(g.round_index)
          THEN [ tag |-> "Ok", val |-> <<"Undecided">> ]
          ELSE
            LET prev_round_votes ==
                  [ y_hash \in g.round_index[r + 2] |-> See(g, y_hash, event_hash) ]
            IN  [ tag |-> "Ok", val |-> <<FameRounds(g, r, 2, prev_round_votes)>> ]

\* Graph::decide_fame_for_witness: the result and the graph after the call
DecideFameForWitness(g, event_hash) ==
    LET fame == IsFamousWitness(g, event_hash)
    IN  IF fame.tag = "Ok"
        THEN [ tag |-> "Ok", val |-> << >>,
               g   |-> [ g EXCEPT !.witnesses = MapInsert(g.witnesses, event_hash, fame.val[1]) ] ]
        ELSE [ tag |-> fame.tag, val |-> fame.val, g |-> g ]

\* ------------------------------------------------------------------------
\* Graph::push_node
\* A step of push_node yields [tag, val, g]: tag "Ok" with the graph so far,
\* or tag "Err" with the PushError in val and the graph as the step left it.
\* ------------------------------------------------------------------------

\* PushKind
PushGenesis == <<"Genesis">>

PushRegular(other_parent) == <<"Regular", other_parent>>

\* The construction of new_node with the genesis of the author as self_parent
NewNodeOnGenesis(g, payload, node_type, author) ==
    IF node_type[1] = "Genesis"
    THEN [ tag |-> "Ok", val |-> EventNew(payload, KindGenesis, author) ]
    ELSE IF author \notin DOMAIN g.peer_index
    THEN [ tag |-> "Err", val |-> <<"PeerNotFound", author>> ]
    ELSE [ tag |-> "Ok",
           val |-> EventNew(payload, KindRegular(g.peer_index[author].genesis, node_type[2]), author) ]

\* The construction of new_node: [tag, val], val the node or the error
NewNode(g, payload, node_type, author) ==
    IF node_type[1] = "Genesis"
    THEN [ tag |-> "Ok", val |-> EventNew(payload, KindGenesis, author) ]
    ELSE IF author \notin DOMAIN g.peer_index
    THEN [ tag |-> "Err", val |-> <<"PeerNotFound", author>> ]
    ELSE LET latest_author_event == g.peer_index[author].latest_event
         IN  [ tag |-> "Ok",
               val |-> EventNew(payload, KindRegular(latest_author_event, node_type[2]), author) ]

\* Mutant of LinkGenesis: the entry is inserted first and the clash is noticed
\* afterwards, so the error leaves the new entry behind.
LinkGenesisInsertFirst(g, new_node, author) ==
    LET inserted == [ g EXCEPT !.peer_index =
                        MapInsert(g.peer_index, author, PeerIndexEntryNew(new_node.hash)) ]
    IN  IF author \in DOMAIN g.peer_index
        THEN [ tag |-> "Err", val |-> <<"GenesisAlreadyExists">>, g |-> inserted ]
        ELSE [ tag |-> "Ok", val |-> << >>, g |-> inserted ]

\* Mutant of LinkGenesis: the check for an existing genesis is missing.
LinkGenesisUnchecked(g, new_node, author) ==
    [ tag |-> "Ok", val |-> << >>,
      g   |-> [ g EXCEPT !.peer_index =
                  MapInsert(g.peer_index, author, PeerIndexEntryNew(new_node.hash)) ] ]

\* The Genesis arm of the match on new_node.parents()
LinkGenesis(g, new_node, author) ==
    IF author \in DOMAIN g.peer_index
    THEN [ tag |-> "Err", val |-> <<"GenesisAlreadyExists">>, g |-> g ]
    ELSE [ tag |-> "Ok", val |-> << >>,
           g   |-> [ g EXCEPT !.peer_index =
                       MapInsert(g.peer_index, author, PeerIndexEntryNew(new_node.hash)) ] ]

\* Mutant of RegularChecks: the error for a missing other_parent carries the
\* hash of the self_parent.
RegularChecksWrongHash(g, parents, author) ==
    IF parents[1] \notin DOMAIN g.all_events
    THEN Some(<<"NoParent", parents[1]>>)
    ELSE IF parents[2] \notin DOMAIN g.all_events
    THEN Some(<<"NoParent", parents[1]>>)
    ELSE IF g.all_events[parents[1]].author # author
    THEN Some(<<"IncorrectAuthor", g.all_events[parents[1]].author, author>>)
    ELSE IF g.all_events[parents[1]].self_child # None
    THEN Some(<<"SelfChildAlreadyExists", g.all_events[parents[1]].self_child[1]>>)
    ELSE IF author \notin DOMAIN g.peer_index
    THEN Some(<<"PeerNotFound", author>>)
    ELSE None

\* The checks of the Regular arm, in order: None or Some(PushError)
RegularChecks(g, parents, author) ==
    IF parents[1] \notin DOMAIN g.all_events
    THEN Some(<<"NoParent", parents[1]>>)
    ELSE IF parents[2] \notin DOMAIN g.all_events
    THEN Some(<<"NoParent", parents[2]>>)
    ELSE IF g.all_events[parents[1]].author # author
    THEN Some(<<"IncorrectAuthor", g.all_events[parents[1]].author, author>>)
    ELSE IF g.all_events[parents[1]].self_child # None
    THEN Some(<<"SelfChildAlreadyExists", g.all_events[parents[1]].self_child[1]>>)
    ELSE IF author \notin DOMAIN g.peer_index
    THEN Some(<<"PeerNotFound", author>>)
    ELSE None

\* Mutant of RegularInsert: the other parent is taken out of the store to be
\* updated and is not put back.
RegularInsertTakesParent(g, new_node, parents, author) ==
    LET with_self == [ g.all_events EXCEPT
                         ![parents[1]].self_child = Some(new_node.hash) ]
        taken     == [ h \in (DOMAIN with_self) \ {parents[2]} |-> with_self[h] ]
    IN  [ g EXCEPT !.all_events = taken,
                   !.peer_index = [ g.peer_index EXCEPT
                                      ![author] = AddLatest(@, new_node.hash) ] ]

\* Mutant of RegularInsert: the latest event of the author is not updated.
RegularInsertKeepsLatest(g, new_node, parents, author) ==
    LET with_self  == [ g.all_events EXCEPT
                          ![parents[1]].self_child = Some(new_node.hash) ]
        with_other == [ with_self EXCEPT
                          ![parents[2]].other_children = Append(@, new_node.hash) ]
    IN  [ g EXCEPT !.all_events = with_other ]

\* The insertion that leaves other_children of the other parent as it was
RegularInsertSkipsOtherChild(g, new_node, parents, author) ==
    LET with_self  == [ g.all_events EXCEPT
                          ![parents[1]].self_child = Some(new_node.hash) ]
    IN  [ g EXCEPT !.all_events = with_self,
                   !.peer_index = [ g.peer_index EXCEPT
                                      ![author] = AddLatest(@, new_node.hash) ] ]

\* The insertion part of the Regular arm: the pointers of the parents and the
\* latest event of the author.  The two parents may be the same event.
RegularInsert(g, new_node, parents, author) ==
    LET with_self  == [ g.all_events EXCEPT
                          ![parents[1]].self_child = Some(new_node.hash) ]
        with_other == [ with_self EXCEPT
                          ![parents[2]].other_children = Append(@, new_node.hash) ]
    IN  [ g EXCEPT !.all_events = with_other,
                   !.peer_index = [ g.peer_index EXCEPT
                                      ![author] = AddLatest(@, new_node.hash) ] ]

\* The Regular arm of the match on new_node.parents()
LinkRegular(g, new_node, author) ==
    LET parents == new_node.kind
        failed  == RegularChecks(g, parents, author)
    IN  IF failed # None
        THEN [ tag |-> "Err", val |-> failed[1], g |-> g ]
        ELSE [ tag |-> "Ok", val |-> << >>, g |-> RegularInsert(g, new_node, parents, author) ]

\* "Index the node and save"
SaveNode(g, new_node) ==
    [ g EXCEPT !.all_events = MapInsert(g.all_events, new_node.hash, new_node) ]

\* "Set round" that keeps in the cache the round of the new event only
SetRoundForgetsCache(g, hash, r) ==
    LET last_idx == Len(g.round_index) - 1
        cached   == (hash :> r)
    IN  IF r > last_idx
        THEN [ g EXCEPT !.round_of = cached,
                        !.round_index = Append(g.round_index, {hash}) ]
        ELSE [ g EXCEPT !.round_of = cached,
                        !.round_index = [ g.round_index EXCEPT
                                            ![last_idx + 1] = @ \cup {hash} ] ]

\* "Set round", for the round r that determine_round returned
SetRound(g, hash, r) ==
    LET last_idx == Len(g.round_index) - 1
        cached   == MapInsert(g.round_of, hash, r)
    IN  IF r > last_idx
        THEN [ g EXCEPT !.round_of = cached,
                        !.round_index = Append(g.round_index, {hash}) ]
        ELSE [ g EXCEPT !.round_of = cached,
                        !.round_index = [ g.round_index EXCEPT
                                            ![last_idx + 1] = @ \cup {hash} ] ]

\* Mutant of SetWitness: every new event is registered as a witness.
SetWitnessAlways(g, hash) ==
    [ g EXCEPT !.witnesses = MapInsert(g.witnesses, hash, "Undecided") ]

\* "Set witness status"
SetWitness(g, hash) ==
    IF DetermineWitness(g, hash)
    THEN [ g EXCEPT !.witnesses = MapInsert(g.witnesses, hash, "Undecided") ]
    ELSE g

\* push_node from "Index the node and save" on, after the links are made
Commit(g, new_node) ==
    LET saved == SaveNode(g, new_node)
        r     == DetermineRound(saved, new_node.hash)
    IN  IF r = Panicked
        THEN [ tag |-> "Panic", val |-> << >>, g |-> saved ]
        ELSE [ tag |-> "Ok", val |-> <<new_node.hash>>,
               g   |-> SetWitness(SetRound(saved, new_node.hash, r), new_node.hash) ]

\* Mutant of push_node: the check for a hash that is already stored is missing.
PushNodeNoDuplicateCheck(g, payload, node_type, author) ==
    LET made == NewNode(g, payload, node_type, author)
    IN  IF made.tag = "Err"
        THEN [ tag |-> "Err", val |-> made.val, g |-> g ]
        ELSE
          LET new_node == made.val
              linked   == IF IsGenesisKind(new_node.kind)
                          THEN LinkGenesis(g, new_node, author)
                          ELSE LinkRegular(g, new_node, author)
          IN  IF linked.tag = "Err"
              THEN linked
              ELSE Commit(linked.g, new_node)

\* Graph::push_node: the result and the graph after the call
PushNode(g, payload, node_type, author) ==
    LET made == NewNode(g, payload, node_type, author)
    IN  IF made.tag = "Err"
        THEN [ tag |-> "Err", val |-> made.val, g |-> g ]
        ELSE
          LET new_node == made.val
          IN  IF new_node.hash \in DOMAIN g.all_events
              THEN [ tag |-> "Err", val |-> <<"NodeAlreadyExists", new_node.hash>>, g |-> g ]
              ELSE
                LET linked == IF IsGenesisKind(new_node.kind)
                              THEN LinkGenesis(g, new_node, author)
                              ELSE LinkRegular(g, new_node, author)
                IN  IF linked.tag = "Err"
                    THEN linked
                    ELSE Commit(linked.g, new_node)

\* Graph::new
GraphNew(id, genesis_payload, cf) ==
    PushNode(MkGraph(<< >>, << >>, <<{}>>, << >>, << >>, cf),
             genesis_payload, PushGenesis, id).g

\* Graph::peer_latest_event
PeerLatestEvent(g, peer) ==
    IF peer \in DOMAIN g.peer_index THEN Some(g.peer_index[peer].latest_event) ELSE None

\* Graph::peer_genesis
PeerGenesis(g, peer) ==
    IF peer \in DOMAIN g.peer_index THEN Some(g.peer_index[peer].genesis) ELSE None

\* ------------------------------------------------------------------------
\* The state machine: a Graph and the calls made on it.
\* ret records the last call: [op, args, tag, val].
\* ------------------------------------------------------------------------

\* Hashes handed to the calls: every hash of the store, and hashes of genesis
\* events that were perhaps never pushed (that of StrangerPeer never is).
HashInputs ==
    (DOMAIN all_events) \cup { Hash(0, KindGenesis, a) : a \in {NumPeers - 1, StrangerPeer} }

Running == ret.tag # "Panic"

SetGraph(g) ==
    /\ all_events'  = g.all_events
    /\ peer_index'  = g.peer_index
    /\ round_index' = g.round_index
    /\ witnesses'   = g.witnesses
    /\ round_of'    = g.round_of

Init ==
    \E id \in SelfIds, genesis_payload \in Payloads, cf \in CoinFrequencies :
        LET g == GraphNew(id, genesis_payload, cf)
        IN  /\ all_events  = g.all_events
            /\ peer_index  = g.peer_index
            /\ round_index = g.round_index
            /\ witnesses   = g.witnesses
            /\ round_of    = g.round_of
            /\ self_id = id
            /\ coin_frequency = cf
            /\ ret = [ op |-> "new", args |-> <<genesis_payload, PushGenesis, id>>,
                       tag |-> "Ok", val |-> <<g.peer_index[id].genesis>> ]

\* push_node called on the graph of the current state
DoPushNode(payload, node_type, author) ==
    LET out == PushNode(G, payload, node_type, author)
    IN  /\ Running
        /\ SetGraph(out.g)
        /\ ret' = [ op |-> "push_node", args |-> <<payload, node_type, author>>,
                    tag |-> out.tag, val |-> out.val ]
        /\ UNCHANGED <<self_id, coin_frequency>>

\* A call of push_node, while the store holds at most MaxEvents events
CallPushNode(payload, node_type, author) ==
    /\ Cardinality(DOMAIN PushNode(G, payload, node_type, author).g.all_events) <= MaxEvents
    /\ DoPushNode(payload, node_type, author)

\* A call of round_of
CallRoundOf(event_hash) ==
    /\ Running
    /\ ret' = [ op |-> "round_of", args |-> <<event_hash>>,
                tag |-> IF RoundOf(G, event_hash) = Panicked THEN "Panic" ELSE "Ok",
                val |-> IF RoundOf(G, event_hash) = Panicked THEN << >>
                        ELSE <<RoundOf(G, event_hash)>> ]
    /\ UNCHANGED <<graphState, self_id, coin_frequency>>

\* A call of determine_witness
CallDetermineWitness(event_hash) ==
    /\ Running
    /\ ret' = [ op |-> "determine_witness", args |-> <<event_hash>>,
                tag |-> IF DetermineWitnessReturns(G, event_hash) THEN "Ok" ELSE "Panic",
                val |-> IF DetermineWitnessReturns(G, event_hash)
                        THEN <<DetermineWitness(G, event_hash)>> ELSE << >> ]
    /\ UNCHANGED <<graphState, self_id, coin_frequency>>

\* A call of is_famous_witness
CallIsFamousWitness(event_hash) ==
    LET out == IsFamousWitness(G, event_hash)
    IN  /\ Running
        /\ ret' = [ op |-> "is_famous_witness", args |-> <<event_hash>>,
                    tag |-> out.tag, val |-> out.val ]
        /\ UNCHANGED <<graphState, self_id, coin_frequency>>

\* A call of decide_fame_for_witness
CallDecideFameForWitness(event_hash) ==
    LET out == DecideFameForWitness(G, event_hash)
    IN  /\ Running
        /\ SetGraph(out.g)
        /\ ret' = [ op |-> "decide_fame_for_witness", args |-> <<event_hash>>,
                    tag |-> out.tag, val |-> out.val ]
        /\ UNCHANGED <<self_id, coin_frequency>>

Next ==
    \/ \E payload \in Payloads, author \in Peers :
         CallPushNode(payload, PushGenesis, author)
    \/ \E payload \in RegularPayloads, author \in Peers, other_parent \in HashInputs :
         CallPushNode(payload, PushRegular(other_parent), author)
    \/ \E event_hash \in HashInputs : CallRoundOf(event_hash)
    \/ \E event_hash \in HashInputs : CallDetermineWitness(event_hash)
    \/ \E event_hash \in HashInputs : CallIsFamousWitness(event_hash)
    \/ \E event_hash \in HashInputs : CallDecideFameForWitness(event_hash)

Spec == Init /\ [][Next]_vars

\* ------------------------------------------------------------------------
\* Properties
\* ------------------------------------------------------------------------

StoredEvents == DOMAIN all_events

IsGenesis(h) == IsGenesisKind(all_events[h].kind)

IsRegular(h) == ~IsGenesisKind(all_events[h].kind)

SelfParent(h) == all_events[h].kind[1]

OtherParent(h) == all_events[h].kind[2]

PushFailed == ret.op = "push_node" /\ ret.tag = "Err"

PushSucceeded == ret.op = "push_node" /\ ret.tag = "Ok"

\* C1: a call of push_node that returns an error leaves the event store (with
\* the child pointers of every event), the peer index, the round index, the
\* round_of cache and the witness registry as they were before the call.
C1_ErrorLeavesGraph ==
    [][ PushFailed' => UNCHANGED graphState ]_vars

\* C1 happens: a push has failed on a graph that already holds a regular event.
C1_Witness ==
    /\ PushFailed
    /\ ret.val[1] \in {"NoParent", "GenesisAlreadyExists"}
    /\ \E h \in StoredEvents : IsRegular(h)

\* C2: every stored event is a member of the round_index set of its round and
\* of no other round_index set.
C2_RoundIndexHoldsEventAtItsRound ==
    \A h \in StoredEvents :
        \A i \in 1 .. Len(round_index) :
            (h \in round_index[i]) <=> (i = RoundOf(G, h) + 1)

\* C3: the witness registry holds exactly the geneses and the events whose
\* round is greater than the round of their self_parent, and no call removes
\* an entry of the registry.
C3_WitnessRegistry ==
    /\ [](DOMAIN witnesses =
            { h \in StoredEvents :
                IsGenesis(h) \/ RoundOf(G, h) > RoundOf(G, SelfParent(h)) })
    /\ [][ \A h \in DOMAIN witnesses : h \in DOMAIN witnesses' ]_vars

\* C3 happens: the registry holds a regular witness, the store holds a regular
\* event that is no witness, and decide_fame_for_witness has just been called.
C3_Witness ==
    /\ ret.op = "decide_fame_for_witness"
    /\ \E h \in DOMAIN witnesses : IsRegular(h)
    /\ \E h \in StoredEvents : IsRegular(h) /\ h \notin DOMAIN witnesses

\* C4: both parents of every stored regular event are stored, and the author
\* of its self_parent is its own author.
C4_ParentsStored ==
    \A h \in StoredEvents :
        IsRegular(h) =>
            /\ SelfParent(h) \in StoredEvents
            /\ OtherParent(h) \in StoredEvents
            /\ all_events[SelfParent(h)].author = all_events[h].author

\* C4 happens: a regular event is stored whose two parents are different
\* events of different authors.
C4_Witness ==
    \E h \in StoredEvents :
        /\ IsRegular(h)
        /\ OtherParent(h) \in StoredEvents
        /\ all_events[OtherParent(h)].author # all_events[h].author

\* C5: for every author of the peer index the store holds exactly one genesis
\* event, peer_genesis returns its hash, and that hash never changes.
C5_OneGenesisPerAuthor ==
    /\ [](\A a \in DOMAIN peer_index :
            /\ Cardinality({ h \in StoredEvents :
                               IsGenesis(h) /\ all_events[h].author = a }) = 1
            /\ PeerGenesis(G, a) # None
            /\ PeerGenesis(G, a)[1] \in StoredEvents
            /\ IsGenesis(PeerGenesis(G, a)[1])
            /\ all_events[PeerGenesis(G, a)[1]].author = a)
    /\ [][ \A a \in DOMAIN peer_index :
             /\ a \in DOMAIN peer_index'
             /\ peer_index'[a].genesis = peer_index[a].genesis ]_vars

\* C5 happens: two authors have a genesis, and a further genesis of one of
\* them, with another payload, has just been refused.
C5_Witness ==
    /\ Cardinality(DOMAIN peer_index) = 2
    /\ PushFailed
    /\ ret.args[2] = PushGenesis
    /\ ret.val = <<"GenesisAlreadyExists">>

\* C6: after a successful push_node(payload, kind, author) the latest event of
\* the author is the returned hash, that event has no self-child, and the
\* latest event of every other author is what it was.
C6_LatestEventIsPushed ==
    [][ PushSucceeded' =>
          LET author == ret'.args[3]
              hash   == ret'.val[1]
          IN  /\ peer_index'[author].latest_event = hash
              /\ all_events'[hash].self_child = None
              /\ \A a \in Peers \ {author} :
                   /\ (a \in DOMAIN peer_index') = (a \in DOMAIN peer_index)
                   /\ a \in DOMAIN peer_index =>
                        peer_index'[a].latest_event = peer_index[a].latest_event ]_vars

\* C6 happens: a regular event has just been pushed while another author
\* has events of its own.
C6_Witness ==
    /\ PushSucceeded
    /\ ret.args[2][1] = "Regular"
    /\ Cardinality(DOMAIN peer_index) = 2
    /\ \E a \in DOMAIN peer_index :
         a # ret.args[3] /\ peer_index[a].latest_event # peer_index[a].genesis

\* C8: once an author has a genesis, every further push of a genesis of that
\* author fails: with NodeAlreadyExists(hash) when the hash of the new event is
\* stored, and with GenesisAlreadyExists otherwise.
C8_FurtherGenesisFails ==
    \A author \in DOMAIN peer_index, payload \in Payloads :
        LET out  == PushNode(G, payload, PushGenesis, author)
            hash == Hash(payload, KindGenesis, author)
        IN  /\ out.tag = "Err"
            /\ out.val = IF hash \in StoredEvents
                         THEN <<"NodeAlreadyExists", hash>>
                         ELSE <<"GenesisAlreadyExists">>

\* C8 happens: the stored genesis of an author has just been pushed again, on
\* a graph that has grown since.
C8_Witness ==
    /\ PushFailed
    /\ ret.args[2] = PushGenesis
    /\ ret.val[1] = "NodeAlreadyExists"
    /\ ret.val[2] = peer_index[ret.args[3]].genesis
    /\ Cardinality(StoredEvents) >= 2

\* C9: a push of a regular event by an author that has a genesis, with an
\* other_parent that is not stored, returns NoParent carrying that other_parent.
C9_MissingOtherParent ==
    \A author \in DOMAIN peer_index, payload \in RegularPayloads :
        \A other_parent \in HashInputs \ StoredEvents :
            LET out == PushNode(G, payload, PushRegular(other_parent), author)
            IN  out.tag = "Err" /\ out.val = <<"NoParent", other_parent>>

\* C9 happens: such a push has just been made by an author whose latest event
\* is a regular event.
C9_Witness ==
    /\ PushFailed
    /\ ret.args[2][1] = "Regular"
    /\ ret.args[2][2] \notin StoredEvents
    /\ ret.args[3] \in DOMAIN peer_index
    /\ ret.val = <<"NoParent", ret.args[2][2]>>
    /\ IsRegular(peer_index[ret.args[3]].latest_event)

\* C10: round_of, determine_witness, is_famous_witness and
\* decide_fame_for_witness return a value or an error for every hash they are
\* called with, a hash that is not stored included: none of them panics.
C10_QueriesNeverPanic ==
    ret.op \in {"round_of", "determine_witness", "is_famous_witness",
                "decide_fame_for_witness"}
        => ret.tag # "Panic"

\* ------------------------------------------------------------------------
\* The parent relation of the store
\* ------------------------------------------------------------------------

\* The parents of a stored event: none for a genesis, self_parent and
\* other_parent for a regular event
ParentsOf(ae, h) ==
    IF IsGenesisKind(ae[h].kind) THEN {} ELSE { ae[h].kind[1], ae[h].kind[2] }

\* The event and all its ancestors: the reflexive-transitive closure of the
\* parent relation from h
RECURSIVE AncestorsOf(_, _)
AncestorsOf(ae, h) ==
    {h} \cup UNION { AncestorsOf(ae, p) : p \in ParentsOf(ae, h) }

\* The set of events iter(h) yields
IterSet(h) == SeqToSet(IterSeq(all_events, h))

\* C11: for every stored event E, the set of events yielded by iter(E) is
\* E with all its ancestors and nothing else; ancestor(E, E) holds, ancestor
\* is transitive, and a strict descendant is never an ancestor of its parent.
C11_IterYieldsAncestors ==
    /\ \A e \in StoredEvents : IterSet(e) = AncestorsOf(all_events, e)
    /\ \A e \in StoredEvents : Ancestor(G, e, e)
    /\ \A a, b, c \in StoredEvents :
         (Ancestor(G, a, b) /\ Ancestor(G, b, c)) => Ancestor(G, a, c)
    /\ \A child \in StoredEvents :
         \A a \in AncestorsOf(all_events, child) \ {child} : ~Ancestor(G, a, child)

\* An event whose other parent is a regular event of another author, so that
\* the walk reaches a self-ancestor chain through an other_parent link, and
\* a regular event with a stored event that is not among its ancestors.
C11_Witness ==
    /\ \E e \in StoredEvents :
          /\ IsRegular(e)
          /\ IsRegular(OtherParent(e))
          /\ all_events[OtherParent(e)].author # all_events[e].author
          /\ Cardinality(IterSet(e)) >= 4
    /\ \E e, x \in StoredEvents : IsRegular(e) /\ ~Ancestor(G, e, x)

\* No element occurs twice in the sequence
NoDuplicates(s) == \A i, j \in 1 .. Len(s) : s[i] = s[j] => i = j

\* C12: for every stored event E, no event occurs twice in the sequence
\* that iter(E) yields.
C12_IterYieldsOnce ==
    \A e \in StoredEvents : NoDuplicates(IterSeq(all_events, e))

\* The result Err(NotWitness)
ErrNotWitness(out) == out.tag = "Err" /\ out.val = <<"NotWitness">>

\* The stored events that push_node did not register as witnesses
NonWitnesses == StoredEvents \ DOMAIN witnesses

\* C13: is_famous_witness returns Err(NotWitness) for every stored event that
\* is not a witness, and decide_fame_for_witness on such an event returns
\* Err(NotWitness) and leaves the witness registry unchanged.
C13_NotWitnessError ==
    /\ [](\A h \in NonWitnesses :
            /\ ErrNotWitness(IsFamousWitness(G, h))
            /\ ErrNotWitness(DecideFameForWitness(G, h))
            /\ DecideFameForWitness(G, h).g.witnesses = witnesses)
    /\ [][ \A h \in NonWitnesses :
             /\ (ret'.op = "is_famous_witness" /\ ret'.args = <<h>>) => ErrNotWitness(ret')
             /\ (ret'.op = "decide_fame_for_witness" /\ ret'.args = <<h>>)
                  => (ErrNotWitness(ret') /\ witnesses' = witnesses) ]_vars

\* decide_fame_for_witness was called on a stored event that is no witness
C13_Witness ==
    /\ ret.op = "decide_fame_for_witness"
    /\ ret.args[1] \in NonWitnesses
    /\ ErrNotWitness(ret)

\* The majority values v of the witnesses Y that reach t > 2n/3 in the first
\* normal round, from distance d on, in which some witness does; empty when
\* no witness of a normal round does.
RECURSIVE FameDeciders(_, _, _, _)
FameDeciders(g, r, d, prev_round_votes) ==
    IF r + d + 1 > Len(g.round_index)
    THEN {}
    ELSE
      LET voter_round     == r + d
          round_witnesses == { e \in g.round_index[voter_round + 1] : e \in DOMAIN g.witnesses }
          n               == MembersCount(g)
          yes(y)          == VotesFor(g, y, voter_round, prev_round_votes)
          no(y)           == VotesAgainst(g, y, voter_round, prev_round_votes)
          v(y)            == yes(y) >= no(y)
          t(y)            == Max(yes(y), no(y))
          deciders        == { y \in round_witnesses : t(y) > ((2 * n) \div 3) }
      IN  IF d % g.coin_frequency > 0
          THEN IF deciders # {}
               THEN { v(y) : y \in deciders }
               ELSE FameDeciders(g, r, d + 1, [ y \in round_witnesses |-> v(y) ])
          ELSE FameDeciders(g, r, d + 1,
                            [ y \in round_witnesses |->
                                IF t(y) > ((2 * n) \div 3) THEN v(y) ELSE MiddleBit(y) ])

\* The values v of the deciding witnesses for the election of event_hash
DecidersOf(g, event_hash) ==
    LET r == RoundOf(g, event_hash)
    IN  IF r + 2 > Len(g.round_index)
        THEN {}
        ELSE FameDeciders(g, r, 2,
               [ y_hash \in g.round_index[r + 2] |-> See(g, y_hash, event_hash) ])

\* C14: when a witness Y of a normal round has t > 2n/3 in the election of a
\* witness X, is_famous_witness(X) returns the majority value v of Y: Yes when
\* v is true and No when v is false.
C14_DecidesMajorityValue ==
    \A x \in DOMAIN witnesses :
       \A v \in DecidersOf(G, x) :
          IsFamousWitness(G, x) = [ tag |-> "Ok", val |-> <<IF v THEN "Yes" ELSE "No">> ]


\* The witnesses whose registry entry is a decision
Decided == { h \in DOMAIN witnesses : witnesses[h] \in {"Yes", "No"} }

\* C15: once decide_fame_for_witness has recorded Yes or No for a witness,
\* no later push_node or decide_fame_for_witness changes the entry, and
\* is_famous_witness returns the recorded value.
C15_DecisionIsFinal ==
    /\ [][ \A h \in Decided : h \in DOMAIN witnesses' /\ witnesses'[h] = witnesses[h] ]_vars
    /\ [](\A h \in Decided :
            IsFamousWitness(G, h) = [ tag |-> "Ok", val |-> <<witnesses[h]>> ])


\* The result Ok(Undecided)
OkUndecided == [ tag |-> "Ok", val |-> <<"Undecided">> ]

\* rounds[i] exists in round_index
HasRound(i) == i + 1 <= Len(round_index)

UnitPayload == 0

\* The position in PeerEvents.events of the event that entry k of the list
\* pushes (position 0 is the genesis of the author)
EventIndex(events, k) == Cardinality({ j \in 1 .. k : events[j][2] = events[k][2] })

\* PeerEvents.events[i] of a peer: its genesis followed by its events in the
\* order they were pushed
RECURSIVE PeerEvent(_, _, _)
PeerEvent(g, peer, i) ==
    IF i = 0
    THEN g.peer_index[peer].genesis
    ELSE g.all_events[PeerEvent(g, peer, i - 1)].self_child[1]

\* The hash an event name stands for: the genesis of the peer of that name,
\* or the event inserted under that name
NamedEvent(g, author_ids, events, name) ==
    IF name \in DOMAIN author_ids
    THEN g.peer_index[author_ids[name]].genesis
    ELSE LET k == CHOOSE k \in 1 .. Len(events) : events[k][1] = name
         IN  PeerEvent(g, author_ids[events[k][2]], EventIndex(events, k))

\* The ids of the authors of a test graph
AuthorIdsOf(author_ids) == { author_ids[name] : name \in DOMAIN author_ids }

\* The number of events of the list that are in the store
EventsAdded(author_ids) == Cardinality(DOMAIN all_events) - Cardinality(DOMAIN author_ids)

\* tests::add_geneses: the genesis of every other author, in the order of a
\* HashMap (any order).  The builders call it before add_events, on a graph
\* that holds no regular event.
AddGeneses(author_ids) ==
    /\ \A h \in DOMAIN all_events : IsGenesisKind(all_events[h].kind)
    /\ \E name \in DOMAIN author_ids :
          /\ author_ids[name] \notin DOMAIN peer_index
          /\ DoPushNode(UnitPayload, PushGenesis, author_ids[name])

\* tests::add_events: the next event of the list, once add_geneses has
\* pushed the geneses of the authors of the graph
AddEvents(author_ids, events) ==
    /\ DOMAIN peer_index = AuthorIdsOf(author_ids)
    /\ EventsAdded(author_ids) < Len(events)
    /\ LET entry == events[EventsAdded(author_ids) + 1]
       IN  DoPushNode(UnitPayload,
                      PushRegular(NamedEvent(G, author_ids, events, entry[3])),
                      author_ids[entry[2]])

\* The graph of the list is built
Built(author_ids, events) ==
    /\ DOMAIN peer_index = AuthorIdsOf(author_ids)
    /\ EventsAdded(author_ids) = Len(events)

\* The coin frequencies the tests build their graphs with
TestCoinFrequency == 15
TestCoinFrequencyLarge == 999

\* Graph::new as the test builders call it: author 0, payload (), and one of
\* the coin frequencies the tests pass
InitTest(coin_frequencies) ==
    \E cf \in coin_frequencies :
        LET g == GraphNew(0, UnitPayload, cf)
        IN  /\ all_events  = g.all_events
            /\ peer_index  = g.peer_index
            /\ round_index = g.round_index
            /\ witnesses   = g.witnesses
            /\ round_of    = g.round_of
            /\ self_id = 0
            /\ coin_frequency = cf
            /\ ret = [ op |-> "new", args |-> <<UnitPayload, PushGenesis, 0>>,
                       tag |-> "Ok", val |-> <<g.peer_index[0].genesis>> ]

\* tests::build_graph_some_chain
ChainAuthorIds == [ g1 |-> 0, g2 |-> 1, g3 |-> 2 ]

ChainEvents ==
    << <<"e1", "g1", "g2">>,
       <<"e2", "g2", "e1">>,
       <<"e3", "g3", "e2">>,
       <<"e4", "g2", "e3">>,
       <<"e5", "g1", "e4">>,
       <<"e6", "g3", "e5">>,
       <<"e7", "g2", "e6">> >>

ChainBuilt == Built(ChainAuthorIds, ChainEvents)

\* The event of the chain graph with the given name
Chain(name) == NamedEvent(G, ChainAuthorIds, ChainEvents, name)

\* C17: in the chain graph built with coin_frequency 15,
\* is_famous_witness(genesis of g1) returns Yes.
C17_ChainGenesisFamous ==
    (ChainBuilt /\ coin_frequency = TestCoinFrequency)
       => IsFamousWitness(G, Chain("g1")) = [ tag |-> "Ok", val |-> <<"Yes">> ]

\* C18: in the chain graph, determine_witness is true for the third event of
\* g2 (e4) and for the third event of g1 (e5), and false for the second event
\* of g3 (e3).
C18_ChainWitnesses ==
    ChainBuilt =>
       /\ DetermineWitness(G, Chain("e4"))
       /\ DetermineWitness(G, Chain("e5"))
       /\ ~DetermineWitness(G, Chain("e3"))

\* tests::build_graph_detailed_example
DetailedAuthorIds == [ a |-> 0, b |-> 1, c |-> 2, d |-> 3 ]

DetailedEvents ==
    << <<"d1_1", "d", "b">>,
       <<"b1_1", "b", "d1_1">>,
       <<"d1_2", "d", "b1_1">>,
       <<"b1_2", "b", "c">>,
       <<"a1_1", "a", "b1_1">>,
       <<"d1_3", "d", "b1_2">>,
       <<"c1_1", "c", "b1_2">>,
       <<"b1_3", "b", "d1_3">>,
       <<"d2", "d", "a1_1">>,
       <<"a2", "a", "d2">>,
       <<"b2", "b", "d2">>,
       <<"a2_1", "a", "c1_1">>,
       <<"c2", "c", "a2_1">>,
       <<"d2_1", "d", "b2">>,
       <<"a2_2", "a", "b2">>,
       <<"d2_2", "d", "a2_2">>,
       <<"b2_1", "b", "a2_2">>,
       <<"b3", "b", "d2_2">>,
       <<"a3", "a", "b3">>,
       <<"d3", "d", "b3">>,
       <<"d3_1", "d", "c2">>,
       <<"c3", "c", "d3_1">>,
       <<"b3_1", "b", "a3">>,
       <<"b3_2", "b", "a3">>,
       <<"a3_1", "a", "b3_2">>,
       <<"b3_3", "b", "d3_1">>,
       <<"a3_2", "a", "b3_3">>,
       <<"b3_4", "b", "a3_2">>,
       <<"d3_2", "d", "b3_3">>,
       <<"d4", "d", "c3">>,
       <<"b4", "b", "d4">> >>

DetailedBuilt == Built(DetailedAuthorIds, DetailedEvents)

\* The event of the detailed-example graph with the given name
Detailed(name) == NamedEvent(G, DetailedAuthorIds, DetailedEvents, name)

\* tests::build_graph_from_paper
PaperAuthorIds == [ a |-> 0, b |-> 1, c |-> 2, d |-> 3, e |-> 4 ]

PaperEvents ==
    << <<"c2", "c", "d">>,
       <<"e2", "e", "b">>,
       <<"b2", "b", "c2">>,
       <<"c3", "c", "e2">>,
       <<"d2", "d", "c3">>,
       <<"a2", "a", "b2">>,
       <<"b3", "b", "c3">>,
       <<"c4", "c", "d2">>,
       <<"a3", "a", "b3">>,
       <<"c5", "c", "e2">>,
       <<"c6", "c", "a3">> >>

PaperBuilt == Built(PaperAuthorIds, PaperEvents)

\* The event of the graph from the paper with the given name
Paper(name) == NamedEvent(G, PaperAuthorIds, PaperEvents, name)

\* The last call was a push: the graph is as the builder left it.  The
\* queries below take &self and leave the graph alone, so a query made after
\* another query returns what it returns when made first.
JustBuilt == ret.op \in {"new", "push_node"}

\* A test graph is built
TestGraphBuilt == ChainBuilt \/ DetailedBuilt \/ PaperBuilt

InitTests == InitTest({TestCoinFrequency, TestCoinFrequencyLarge})

\* One of the test graphs is built, and then queried on one of its events
NextTests ==
    \/ AddGeneses(ChainAuthorIds)
    \/ AddEvents(ChainAuthorIds, ChainEvents)
    \/ AddGeneses(DetailedAuthorIds)
    \/ AddEvents(DetailedAuthorIds, DetailedEvents)
    \/ AddGeneses(PaperAuthorIds)
    \/ AddEvents(PaperAuthorIds, PaperEvents)
    \/ /\ TestGraphBuilt /\ JustBuilt
       /\ \E event_hash \in DOMAIN all_events : CallRoundOf(event_hash)
    \/ /\ TestGraphBuilt /\ JustBuilt
       /\ \E event_hash \in DOMAIN all_events : CallDetermineWitness(event_hash)
    \/ /\ TestGraphBuilt /\ JustBuilt
       /\ \E event_hash \in DOMAIN all_events : CallIsFamousWitness(event_hash)

SpecTests == InitTests /\ [][NextTests]_vars

\* The events a test lists for a round: peers[peer].events[from..to]
EventsSlice(peer, from, to) == { PeerEvent(G, peer, i) : i \in from .. (to - 1) }

\* The rounds tests::test_determine_round lists for the chain graph
ChainRounds ==
    << EventsSlice(0, 0, 2) \cup EventsSlice(1, 0, 3) \cup EventsSlice(2, 0, 2),
       EventsSlice(0, 2, 3) \cup EventsSlice(1, 3, 4) \cup EventsSlice(2, 2, 3) >>

\* The rounds tests::test_determine_round lists for the detailed example
DetailedRounds ==
    << EventsSlice(0, 0, 2) \cup EventsSlice(1, 0, 4)
          \cup EventsSlice(2, 0, 2) \cup EventsSlice(3, 0, 4),
       EventsSlice(0, 2, 5) \cup EventsSlice(1, 4, 6)
          \cup EventsSlice(2, 2, 3) \cup EventsSlice(3, 4, 7),
       EventsSlice(0, 5, 8) \cup EventsSlice(1, 6, 11)
          \cup EventsSlice(2, 3, 4) \cup EventsSlice(3, 7, 10),
       EventsSlice(1, 11, 12) \cup EventsSlice(3, 10, 11) >>

\* The first event of its author in the round it lies in
StartsRound(h, i) ==
    /\ h \in round_index[i + 1]
    /\ SelfParent(h) \notin round_index[i + 1]

\* C19: once a test graph is built, every event lies in the round_index set
\* the test lists.  Chain graph: round 0 is {g1 genesis, e1, g2 genesis, e2,
\* e4, g3 genesis, e3} and round 1 is {e5, e6, e7}.  Detailed example: round
\* 0 is {a genesis, a1_1, b genesis, b1_1..b1_3, c genesis, c1_1, d genesis,
\* d1_1..d1_3}, the next round starts at d2, a2 and b2, the one after at b3,
\* and the last holds d4 and b4.
C19_TestRounds ==
    /\ ChainBuilt =>
          /\ round_index = ChainRounds
          /\ round_index[1] = { Chain(name) : name \in {"g1", "e1", "g2", "e2", "e4", "g3", "e3"} }
          /\ round_index[2] = { Chain(name) : name \in {"e5", "e6", "e7"} }
    /\ DetailedBuilt =>
          /\ Len(round_index) = Len(DetailedRounds)
          /\ \A i \in 1 .. Len(DetailedRounds) : DetailedRounds[i] \subseteq round_index[i]
          /\ round_index[1] =
                { Detailed(name) : name \in {"a", "a1_1", "b", "b1_1", "b1_2", "b1_3",
                                             "c", "c1_1", "d", "d1_1", "d1_2", "d1_3"} }
          /\ \A name \in {"d2", "a2", "b2"} : StartsRound(Detailed(name), 1)
          /\ StartsRound(Detailed("b3"), 2)
          /\ round_index[4] = { Detailed("d4"), Detailed("b4") }

\* The detailed example is built and round_of returned 3 for one of its
\* events
C19_Witness ==
    /\ DetailedBuilt
    /\ ret.op = "round_of"
    /\ ret.val = <<3>>

\* ------------------------------------------------------------------------
\* Jobs::generate (algorithm/datastructure/sync/mod.rs)
\* known_state is the store of events; the reversed view has an edge from
\* every event to each of its parents.
\* ------------------------------------------------------------------------

\* reversed_state.in_neighbors(h) of an event of known_state: its children
InNeighbors(ae, h) == { c \in DOMAIN ae : h \in ParentsOf(ae, c) }

\* reversed_state.out_neighbors(h) of an event of known_state: its parents,
\* in one of the two orders a Vec can list them
OutNeighbors(ae, h, self_first) ==
    IF IsGenesisKind(ae[h].kind)
    THEN << >>
    ELSE IF self_first
    THEN <<ae[h].kind[1], ae[h].kind[2]>>
    ELSE <<ae[h].kind[2], ae[h].kind[1]>>

\* The sources when a tip with children is accepted as well
RECURSIVE SourcesFromAnyStored(_, _, _, _)
SourcesFromAnyStored(ae, known_state_tips, i, sources) ==
    IF i > Len(known_state_tips)
    THEN [ tag |-> "Ok", val |-> sources ]
    ELSE LET h == known_state_tips[i]
         IN  IF h \notin DOMAIN ae
             THEN [ tag |-> "Err", val |-> <<"IncorrectTip", h>> ]
             ELSE SourcesFromAnyStored(ae, known_state_tips, i + 1, Append(sources, h))

\* The sources: the tips without children, in the order given; the first tip
\* that known_state does not hold fails the call
RECURSIVE SourcesFrom(_, _, _, _)
SourcesFrom(ae, known_state_tips, i, sources) ==
    IF i > Len(known_state_tips)
    THEN [ tag |-> "Ok", val |-> sources ]
    ELSE LET h == known_state_tips[i]
         IN  IF h \notin DOMAIN ae
             THEN [ tag |-> "Err", val |-> <<"IncorrectTip", h>> ]
             ELSE IF InNeighbors(ae, h) = {}
             THEN SourcesFrom(ae, known_state_tips, i + 1, Append(sources, h))
             ELSE SourcesFrom(ae, known_state_tips, i + 1, sources)

\* A filter that lets every element through
SeqFilterOutNothing(seq, known) == seq

\* Iterator::filter on a sequence
RECURSIVE SeqFilterOut(_, _)
SeqFilterOut(seq, known) ==
    IF seq = << >>
    THEN << >>
    ELSE IF Head(seq) \in known
    THEN SeqFilterOut(Tail(seq), known)
    ELSE <<Head(seq)>> \o SeqFilterOut(Tail(seq), known)

\* The loop that ends at the first neighbor the peer knows and leaves the
\* neighbors after it unchecked
RECURSIVE VisitNeighborsUntilKnown(_, _, _, _, _, _)
VisitNeighborsUntilKnown(ae, peer_knows, st, next, neighbors, i) ==
    IF i > Len(neighbors)
    THEN st
    ELSE
      LET affected_neighbor == neighbors[i]
      IN  IF affected_neighbor \in st.to_visit_set
          THEN VisitNeighborsUntilKnown(ae, peer_knows, st, next, neighbors, i + 1)
          ELSE IF affected_neighbor \in peer_knows
          THEN st
          ELSE IF affected_neighbor \notin DOMAIN ae
          THEN [ st EXCEPT !.err = <<"UnknownEvent", next>> ]
          ELSE IF /\ InNeighbors(ae, affected_neighbor) \subseteq st.visited
                  /\ affected_neighbor \notin st.visited
          THEN VisitNeighborsUntilKnown(ae, peer_knows,
                              [ st EXCEPT !.to_visit_set = @ \cup {affected_neighbor},
                                          !.to_visit = Append(@, affected_neighbor) ],
                              next, neighbors, i + 1)
          ELSE VisitNeighborsUntilKnown(ae, peer_knows, st, next, neighbors, i + 1)

\* The loop over the out neighbors of `next`, from neighbor i on.  st holds
\* to_visit, to_visit_set, visited and sorted; err is set when a lookup fails.
RECURSIVE VisitNeighbors(_, _, _, _, _, _)
VisitNeighbors(ae, peer_knows, st, next, neighbors, i) ==
    IF i > Len(neighbors)
    THEN st
    ELSE
      LET affected_neighbor == neighbors[i]
      IN  IF affected_neighbor \in st.to_visit_set
          THEN VisitNeighbors(ae, peer_knows, st, next, neighbors, i + 1)
          ELSE IF affected_neighbor \in peer_knows
          THEN VisitNeighbors(ae, peer_knows, st, next, neighbors, i + 1)
          ELSE IF affected_neighbor \notin DOMAIN ae
          THEN [ st EXCEPT !.err = <<"UnknownEvent", next>> ]
          ELSE IF /\ InNeighbors(ae, affected_neighbor) \subseteq st.visited
                  /\ affected_neighbor \notin st.visited
          THEN VisitNeighbors(ae, peer_knows,
                              [ st EXCEPT !.to_visit_set = @ \cup {affected_neighbor},
                                          !.to_visit = Append(@, affected_neighbor) ],
                              next, neighbors, i + 1)
          ELSE VisitNeighbors(ae, peer_knows, st, next, neighbors, i + 1)

\* The while loop over to_visit
RECURSIVE Traverse(_, _, _, _)
Traverse(ae, peer_knows, self_first, st) ==
    IF st.to_visit = << >> \/ st.err # << >>
    THEN st
    ELSE
      LET next   == Head(st.to_visit)
          popped == [ st EXCEPT !.to_visit = Tail(@) ]
      IN  IF next \in popped.visited
          THEN Traverse(ae, peer_knows, self_first, popped)
          ELSE IF next \notin DOMAIN ae
          THEN [ popped EXCEPT !.err = <<"UnknownEvent", next>> ]
          ELSE
            LET marked == [ popped EXCEPT !.visited = @ \cup {next} ]
                after  == VisitNeighbors(ae, peer_knows, marked, next,
                                         OutNeighbors(ae, next, self_first), 1)
            IN  IF after.err # << >>
                THEN after
                ELSE Traverse(ae, peer_knows, self_first,
                              [ after EXCEPT !.sorted = Append(@, next) ])

\* Vec::reverse
Reverse(seq) == [ i \in 1 .. Len(seq) |-> seq[Len(seq) + 1 - i] ]

\* generate that returns sorted as the traversal left it, not reversed
GenerateUnreversed(ae, peer_knows, known_state_tips, self_first) ==
    LET sources == SourcesFrom(ae, known_state_tips, 1, << >>)
    IN  IF sources.tag = "Err"
        THEN sources
        ELSE
          LET unknown_sources == SeqFilterOut(sources.val, peer_knows)
              st == Traverse(ae, peer_knows, self_first,
                             [ to_visit     |-> unknown_sources,
                               to_visit_set |-> {},
                               visited      |-> {},
                               sorted       |-> << >>,
                               err          |-> << >> ])
          IN  IF st.err # << >>
              THEN [ tag |-> "Err", val |-> st.err ]
              ELSE [ tag |-> "Ok", val |-> st.sorted ]

\* Jobs::generate: Ok with the hashes of the events of the jobs in order, or
\* Err with the error.  peer_knows_event is the set of hashes the peer knows;
\* get_event finds every event of known_state.
Generate(ae, peer_knows, known_state_tips, self_first) ==
    LET sources == SourcesFrom(ae, known_state_tips, 1, << >>)
    IN  IF sources.tag = "Err"
        THEN sources
        ELSE
          LET unknown_sources == SeqFilterOut(sources.val, peer_knows)
              st == Traverse(ae, peer_knows, self_first,
                             [ to_visit     |-> unknown_sources,
                               to_visit_set |-> {},
                               visited      |-> {},
                               sorted       |-> << >>,
                               err          |-> << >> ])
          IN  IF st.err # << >>
              THEN [ tag |-> "Err", val |-> st.err ]
              ELSE [ tag |-> "Ok", val |-> Reverse(st.sorted) ]

\* The largest store that jobs are generated for, and the longest list of tips
MaxSyncEvents == 4
MaxTips == 2

\* Hashes handed to generate: every hash of the store and one that
\* known_state does not hold
SyncHashes == (DOMAIN all_events) \cup { Hash(UnitPayload, KindGenesis, StrangerPeer) }

\* The lists of tips handed to generate: any hashes, in any order, repeated
\* or not
TipLists == UNION { [ 1 .. len -> SyncHashes ] : len \in 0 .. MaxTips }

\* A call of Jobs::generate on the store of the current state
CallGenerate(peer_knows, known_state_tips, self_first) ==
    LET out == Generate(all_events, peer_knows, known_state_tips, self_first)
    IN  /\ Running
        /\ ret' = [ op |-> "generate", args |-> <<peer_knows, known_state_tips, self_first>>,
                    tag |-> out.tag, val |-> out.val ]
        /\ UNCHANGED <<graphState, self_id, coin_frequency>>

\* A push that grows the store up to MaxSyncEvents events
SyncPushNode(node_type, author) ==
    /\ Cardinality(DOMAIN PushNode(G, UnitPayload, node_type, author).g.all_events) <= MaxSyncEvents
    /\ DoPushNode(UnitPayload, node_type, author)

InitSync == InitTest({TestCoinFrequency})

\* The store grows by pushes, and then jobs are generated for it.  generate
\* leaves the store alone, so the stores reached are those the pushes reach.
NextSync ==
    \/ /\ JustBuilt
       /\ \E author \in Peers : SyncPushNode(PushGenesis, author)
    \/ /\ JustBuilt
       /\ \E author \in Peers, other_parent \in DOMAIN all_events :
            SyncPushNode(PushRegular(other_parent), author)
    \/ /\ JustBuilt
       /\ \E peer_knows \in SUBSET SyncHashes, known_state_tips \in TipLists,
             self_first \in BOOLEAN :
            CallGenerate(peer_knows, known_state_tips, self_first)

SpecSync == InitSync /\ [][NextSync]_vars

\* The last call was generate and it returned jobs
Generated == ret.op = "generate" /\ ret.tag = "Ok"

\* C20: the sequence Jobs::generate returns is a topological order of the
\* events: every parent of an emitted event that is emitted too occurs before
\* it; and no event occurs twice, also when a tip is given more than once.
C20_JobsTopologicalOrder ==
    Generated =>
       /\ NoDuplicates(ret.val)
       /\ \A i, j \in 1 .. Len(ret.val) :
             ret.val[j] \in ParentsOf(all_events, ret.val[i]) => j < i

\* Jobs were generated from a tip given twice, and they hold an event after
\* both of its parents
C20_Witness ==
    /\ Generated
    /\ Len(ret.args[2]) = 2
    /\ ret.args[2][1] = ret.args[2][2]
    /\ \E i \in 1 .. Len(ret.val) :
          /\ IsRegular(ret.val[i])
          /\ SelfParent(ret.val[i]) # OtherParent(ret.val[i])
          /\ ParentsOf(all_events, ret.val[i]) \subseteq SeqToSet(ret.val)

\* The events reachable from the tips given, the tips included
AncestorsOfTips(known_state_tips) ==
    UNION { AncestorsOf(all_events, t) : t \in SeqToSet(known_state_tips) }

\* The events of known_state without children
LocalTips == { h \in DOMAIN all_events : InNeighbors(all_events, h) = {} }

\* The peer knows every parent of an event it knows
KnowsAncestry(peer_knows) ==
    \A h \in peer_knows \cap DOMAIN all_events :
       ParentsOf(all_events, h) \subseteq peer_knows

\* C21 as stated: for every list of tips of known_state and every set K of
\* events the peer knows, closed under ancestry or not, the events of the
\* jobs are exactly the ancestors of the tips that are not in K.
C21_AnyTipsAnyKnowledge ==
    (Generated /\ SeqToSet(ret.args[2]) \subseteq LocalTips) =>
       SeqToSet(ret.val) = AncestorsOfTips(ret.args[2]) \ ret.args[1]

\* C21, amended: when the peer knows every parent of an event it knows and
\* the tips given hold every event of known_state without children, the
\* events of the jobs are exactly the ancestors of the tips that the peer
\* does not know.
C21_JobsAreUnknownAncestors ==
    (/\ Generated
     /\ KnowsAncestry(ret.args[1])
     /\ LocalTips \subseteq SeqToSet(ret.args[2])) =>
       SeqToSet(ret.val) = AncestorsOfTips(ret.args[2]) \ ret.args[1]

\* Jobs were generated from the two tips of a store for a peer that knows
\* some of its events and their ancestors, and not all of them
C21_Witness ==
    /\ Generated
    /\ KnowsAncestry(ret.args[1])
    /\ Cardinality(LocalTips) = 2
    /\ LocalTips = SeqToSet(ret.args[2])
    /\ ret.args[1] \cap DOMAIN all_events # {}
    /\ Len(ret.val) >= 2

\* C22: the jobs Jobs::generate returns hold no event the peer knows, and
\* when the peer knows every tip given there are no jobs at all.
C22_NoKnownEventInJobs ==
    Generated =>
       /\ SeqToSet(ret.val) \cap ret.args[1] = {}
       /\ SeqToSet(ret.args[2]) \subseteq ret.args[1] => ret.val = << >>

\* Jobs were generated from a tip the peer does not know, and the traversal
\* met a parent the peer knows and a parent it does not know
C22_Witness ==
    /\ Generated
    /\ \E i \in 1 .. Len(ret.val) :
          /\ IsRegular(ret.val[i])
          /\ SelfParent(ret.val[i]) \in ret.args[1]
          /\ OtherParent(ret.val[i]) \in SeqToSet(ret.val)

\* The tips given that known_state does not hold
AbsentTips(known_state_tips) == SeqToSet(known_state_tips) \ DOMAIN all_events

\* C23: Jobs::generate fails with IncorrectTip(h) for a tip h given that
\* known_state does not hold, whether the peer knows h or not; and a tip
\* given that has children starts no traversal: every event of the jobs is
\* reachable from a tip given that has no children.
C23_TipsValidated ==
    ret.op = "generate" =>
       /\ AbsentTips(ret.args[2]) # {} =>
             /\ ret.tag = "Err"
             /\ ret.val[1] = "IncorrectTip"
             /\ ret.val[2] \in AbsentTips(ret.args[2])
       /\ Generated =>
             SeqToSet(ret.val) \subseteq
                UNION { AncestorsOf(all_events, t) : t \in SeqToSet(ret.args[2]) \cap LocalTips }

\* Jobs were generated from a tip without children and a tip with children
\* that the peer does not know, and the jobs do not hold the latter
C23_Witness ==
    /\ Generated
    /\ ret.val # << >>
    /\ \E i \in 1 .. Len(ret.args[2]) :
          /\ ret.args[2][i] \notin LocalTips
          /\ ret.args[2][i] \notin ret.args[1]
          /\ ret.args[2][i] \notin SeqToSet(ret.val)

\* ------------------------------------------------------------------------
\* Hash (algorithm/event.rs): the bytes of a digest and its compact form.
\* The digest has HashLen bytes of ByteBits bits (64 bytes of 8 bits in the
\* source).
\* ------------------------------------------------------------------------

HashLen == 4
ByteBits == 2

Bytes == 0 .. (2 ^ ByteBits - 1)

\* b1 ^ b2 on u8
RECURSIVE ByteXor(_, _)
ByteXor(b1, b2) ==
    IF b1 = 0 /\ b2 = 0
    THEN 0
    ELSE (((b1 % 2) + (b2 % 2)) % 2) + 2 * ByteXor(b1 \div 2, b2 \div 2)

\* Hash::xor_bytes
RECURSIVE XorBytes(_)
XorBytes(slice) ==
    IF slice = << >> THEN 0 ELSE ByteXor(Head(slice), XorBytes(Tail(slice)))

\* slice::split_at
SplitAt(slice, mid) ==
    << SubSeq(slice, 1, mid), SubSeq(slice, mid + 1, Len(slice)) >>

\* Hash::calc_compact: the digest is split in two halves and each half in two
CalcCompact(inner) ==
    LET ac == SplitAt(inner, HashLen \div 2)
        ab == SplitAt(ac[1], HashLen \div 4)
        cd == SplitAt(ac[2], HashLen \div 4)
    IN  << XorBytes(ab[1]), XorBytes(ab[2]), XorBytes(cd[1]), XorBytes(cd[2]) >>

\* Hash::from_array
HashFromArray(inner) == [ inner |-> inner, compact |-> CalcCompact(inner) ]

\* impl BitXor for &Hash: a new Hash from the xor of the bytes
BitXorRef(self, rhs) ==
    HashFromArray([ i \in 1 .. HashLen |-> ByteXor(self.inner[i], rhs.inner[i]) ])

\* The owning form with a loop that stops one byte short
BitXorOwnedShort(self, rhs) ==
    [ self EXCEPT !.inner = [ i \in 1 .. HashLen |->
                                IF i < HashLen THEN ByteXor(self.inner[i], rhs.inner[i])
                                ELSE self.inner[i] ] ]

\* impl BitXor<&Hash> for Hash: the bytes of self are updated in place, the
\* compact field is left as it was
BitXorOwned(self, rhs) ==
    [ self EXCEPT !.inner = [ i \in 1 .. HashLen |-> ByteXor(self.inner[i], rhs.inner[i]) ] ]

\* impl PartialEq for Hash: the inner bytes are compared
HashEq(self, other) == self.inner = other.inner

\* The hashes the operators are applied to
HashValues == { HashFromArray(inner) : inner \in [ 1 .. HashLen -> Bytes ] }

\* Two hashes are built with from_array
InitHash ==
    /\ LET g == GraphNew(0, UnitPayload, TestCoinFrequency)
       IN  /\ all_events  = g.all_events
           /\ peer_index  = g.peer_index
           /\ round_index = g.round_index
           /\ witnesses   = g.witnesses
           /\ round_of    = g.round_of
    /\ self_id = 0
    /\ coin_frequency = TestCoinFrequency
    /\ \E hash1 \in HashValues, hash2 \in HashValues :
          ret = [ op |-> "from_array", args |-> <<hash1, hash2>>,
                  tag |-> "Ok", val |-> <<hash1, hash2>> ]

\* &hash1 ^ &hash2 or &hash2 ^ &hash1
CallBitXorRef(self, rhs) ==
    /\ ret.op = "from_array"
    /\ ret' = [ op |-> "bitxor_ref", args |-> <<self, rhs>>,
                tag |-> "Ok", val |-> BitXorRef(self, rhs) ]
    /\ UNCHANGED <<graphState, self_id, coin_frequency>>

\* hash1 ^ &hash2 or hash2 ^ &hash1
CallBitXorOwned(self, rhs) ==
    /\ ret.op = "from_array"
    /\ ret' = [ op |-> "bitxor_owned", args |-> <<self, rhs>>,
                tag |-> "Ok", val |-> BitXorOwned(self, rhs) ]
    /\ UNCHANGED <<graphState, self_id, coin_frequency>>

\* #[derive(Serialize)] on Hash: the inner bytes are written, the compact
\* field is skipped
Serialize(hash) == hash.inner

\* impl Deserialize for Hash: the bytes are read and given to from_array
Deserialize(bytes) == HashFromArray(bytes)

\* The hashes the last call left in hand
HashesInHand ==
    CASE ret.op = "from_array"   -> {ret.val[1], ret.val[2]}
      [] ret.op = "bitxor_ref"   -> {ret.val, ret.args[1], ret.args[2]}
      [] ret.op = "bitxor_owned" -> {ret.val, ret.args[2]}
      [] ret.op = "serialize"    -> {ret.args[1]}
      [] ret.op = "deserialize"  -> {ret.val, ret.args[2]}

\* bincode::serialize(&hash) of a hash in hand
CallSerialize(hash) ==
    /\ ret.op \in {"from_array", "bitxor_ref", "bitxor_owned"}
    /\ ret' = [ op |-> "serialize", args |-> <<hash>>,
                tag |-> "Ok", val |-> Serialize(hash) ]
    /\ UNCHANGED <<graphState, self_id, coin_frequency>>

\* bincode::deserialize::<Hash> of the bytes just written; the hash they were
\* written from stays in hand
CallDeserialize ==
    /\ ret.op = "serialize"
    /\ ret' = [ op |-> "deserialize", args |-> <<ret.val, ret.args[1]>>,
                tag |-> "Ok", val |-> Deserialize(ret.val) ]
    /\ UNCHANGED <<graphState, self_id, coin_frequency>>

NextHash ==
    \/ \E i, j \in 1 .. 2 : CallBitXorRef(ret.args[i], ret.args[j])
    \/ \E i, j \in 1 .. 2 : CallBitXorOwned(ret.args[i], ret.args[j])
    \/ \E hash \in HashesInHand : CallSerialize(hash)
    \/ CallDeserialize

SpecHash == InitHash /\ [][NextHash]_vars

\* The last call was a xor of two hashes
Xored == ret.op \in {"bitxor_ref", "bitxor_owned"}

\* C24: the xor of two hashes is the xor of their bytes, it is commutative
\* and self-inverse, and the borrowed and the owning form return equal hashes.
C24_HashXor ==
    Xored =>
       LET a == ret.args[1]
           b == ret.args[2]
       IN  /\ \A i \in 1 .. HashLen : ret.val.inner[i] = ByteXor(a.inner[i], b.inner[i])
           /\ HashEq(ret.val, BitXorRef(b, a))
           /\ HashEq(ret.val, BitXorOwned(b, a))
           /\ HashEq(BitXorRef(ret.val, b), a)
           /\ HashEq(BitXorOwned(ret.val, b), a)
           /\ HashEq(BitXorRef(a, b), BitXorOwned(a, b))

\* The owning form was applied to two different hashes that are not zero, and
\* the result equals that of the borrowed form while its compact field is
\* that of the left operand
C24_Witness ==
    /\ ret.op = "bitxor_owned"
    /\ ret.args[1] # ret.args[2]
    /\ HashEq(ret.val, BitXorRef(ret.args[1], ret.args[2]))
    /\ ret.val.compact # BitXorRef(ret.args[1], ret.args[2]).compact
    /\ \A i \in 1 .. HashLen : ret.val.inner[i] # 0

\* The events of a set with all their ancestors: the set closed under the
\* parent relation
RECURSIVE AncestorClosure(_)
AncestorClosure(events) ==
    LET with_parents == events \cup UNION { ParentsOf(all_events, h) : h \in events }
    IN  IF with_parents = events THEN events ELSE AncestorClosure(with_parents)

\* The authors of the events that are an ancestor of observer, or observer
\* itself, and have target as an ancestor, or are target
AuthorsBetween(observer, target) ==
    { all_events[a].author :
        a \in { x \in AncestorClosure({observer}) :
                  target \in AncestorClosure({x}) } }

\* The authors of the witnesses in rounds[r], other than e, that e strongly
\* sees
AuthorsOfWitnessesStronglySeen(e, r) ==
    { all_events[w].author :
        w \in { x \in round_index[r + 1] \ {e} :
                  /\ x \in DOMAIN witnesses
                  /\ Cardinality(AuthorsBetween(e, x)) >
                        (2 * Cardinality(DOMAIN peer_index)) \div 3 } }

\* The event that the last call of push_node admitted
Pushed == ret.val[1]

\* C25: push_node gives a genesis round 0, and a regular event E round r + 1
\* when the witnesses in rounds[r], other than E, that E strongly sees have
\* more than 2n/3 distinct authors, and round r otherwise; r is the larger of
\* the rounds of the parents of E and n the number of members when E is pushed.
C25_RoundAssigned ==
    PushSucceeded =>
       IF IsGenesis(Pushed)
       THEN round_of[Pushed] = 0
       ELSE LET r == Max(round_of[SelfParent(Pushed)], round_of[OtherParent(Pushed)])
                n == Cardinality(DOMAIN peer_index)
            IN  round_of[Pushed] =
                   IF Cardinality(AuthorsOfWitnessesStronglySeen(Pushed, r)) > (2 * n) \div 3
                   THEN r + 1
                   ELSE r

\* A regular event was pushed in a graph of two members, it strongly sees
\* witnesses of both in the round of its parents, and it got the next round
C25_Witness ==
    /\ PushSucceeded
    /\ IsRegular(Pushed)
    /\ Cardinality(DOMAIN peer_index) = 2
    /\ Cardinality(AuthorsOfWitnessesStronglySeen(Pushed, round_of[SelfParent(Pushed)])) = 2
    /\ round_of[Pushed] = round_of[SelfParent(Pushed)] + 1

\* C26: strongly_see(observer, target) holds exactly when the events that
\* are observer or one of its ancestors, and are target or have it as an
\* ancestor, have more than 2n/3 distinct authors; a genesis does not
\* strongly see itself in a graph of two or more members; and in the graph
\* from the paper the last event of c strongly sees the genesis of d.  The
\* observer is the event that was just admitted, every stored event is a
\* target: an event has all its ancestors when it is admitted.
C26_StronglySee ==
    /\ (JustBuilt /\ ret.tag = "Ok") =>
          \A target \in StoredEvents :
             StronglySee(G, Pushed, target) <=>
                Cardinality(AuthorsBetween(Pushed, target)) >
                   (2 * Cardinality(DOMAIN peer_index)) \div 3
    /\ Cardinality(DOMAIN peer_index) >= 2 =>
          \A h \in StoredEvents : IsGenesis(h) => ~StronglySee(G, h, h)
    /\ PaperBuilt => StronglySee(G, Paper("c6"), Paper("d"))

\* The graph from the paper is built: the last event of c strongly sees the
\* genesis of d, through events of four of the five members, and the event
\* of c before it does not
C26_Witness ==
    /\ PaperBuilt
    /\ StronglySee(G, Paper("c6"), Paper("d"))
    /\ Cardinality(AuthorsBetween(Paper("c6"), Paper("d"))) = 4
    /\ ~StronglySee(G, Paper("c5"), Paper("d"))

\* ------------------------------------------------------------------------
\* Graphs of up to MaxMembers members in which the events are passed around
\* a ring: every regular event is pushed by the member after the author of
\* the last one and has the last one as its other parent, and new members
\* join at any time.
\* ------------------------------------------------------------------------

MaxMembers == 7
MaxPasses == 9

\* The regular events of the store
RegularEvents == { h \in StoredEvents : IsRegular(h) }

\* The event pushed last around the ring: the regular event without children,
\* or the genesis of member 0 before the first pass
LastPassed ==
    IF RegularEvents = {}
    THEN peer_index[0].genesis
    ELSE CHOOSE h \in RegularEvents : InNeighbors(all_events, h) = {}

\* push_node of the genesis of a new member
RingAddMember ==
    /\ Cardinality(DOMAIN peer_index) < MaxMembers
    /\ DoPushNode(UnitPayload, PushGenesis, Cardinality(DOMAIN peer_index))

\* push_node of the next event of the ring
RingPassOn ==
    /\ Cardinality(RegularEvents) < MaxPasses
    /\ DoPushNode(UnitPayload, PushRegular(LastPassed),
                  IF RegularEvents = {} THEN 0
                  ELSE (all_events[LastPassed].author + 1) % Cardinality(DOMAIN peer_index))

InitRing == InitTest({TestCoinFrequency})

NextRing ==
    \/ RingAddMember
    \/ RingPassOn

SpecRing == InitRing /\ [][NextRing]_vars

\* The smallest count that passes a supermajority test, by member count
SmallestPassingCount == (3 :> 3) @@ (4 :> 3) @@ (5 :> 4) @@ (7 :> 5)

\* Whether the election of a witness of round r has, from distance d on, a
\* normal round in which a witness counts `least` equal votes or more; a coin
\* round records v for a witness that does, and the middle bit otherwise
RECURSIVE ElectionDecidesWith(_, _, _, _, _)
ElectionDecidesWith(g, r, d, prev_round_votes, least) ==
    IF r + d + 1 > Len(g.round_index)
    THEN FALSE
    ELSE
      LET voter_round     == r + d
          round_witnesses == { e \in g.round_index[voter_round + 1] : e \in DOMAIN g.witnesses }
          yes(y)          == VotesFor(g, y, voter_round, prev_round_votes)
          no(y)           == VotesAgainst(g, y, voter_round, prev_round_votes)
          v(y)            == yes(y) >= no(y)
          t(y)            == Max(yes(y), no(y))
      IN  IF d % g.coin_frequency > 0
          THEN IF \E y \in round_witnesses : t(y) >= least
               THEN TRUE
               ELSE ElectionDecidesWith(g, r, d + 1, [ y \in round_witnesses |-> v(y) ], least)
          ELSE ElectionDecidesWith(g, r, d + 1,
                                   [ y \in round_witnesses |->
                                       IF t(y) >= least THEN v(y) ELSE MiddleBit(y) ],
                                   least)

\* The election of event_hash has a deciding witness when `least` votes decide
DecidesWith(event_hash, least) ==
    LET r == round_of[event_hash]
    IN  /\ r + 2 <= Len(round_index)
        /\ ElectionDecidesWith(G, r, 2,
              [ y_hash \in round_index[r + 2] |-> See(G, y_hash, event_hash) ], least)

\* The latest events of the members
LatestEvents == { peer_index[p].latest_event : p \in DOMAIN peer_index }

\* C27: with n members, the supermajority tests of strongly_see,
\* determine_round and is_famous_witness pass from a count of 3 on for n = 3,
\* 3 for n = 4, 4 for n = 5 and 5 for n = 7, and fail below it: the count is
\* compared with floor(2n/3) by a strict greater-than.
C27_SmallestPassingCount ==
    LET n == Cardinality(DOMAIN peer_index)
    IN  n \in DOMAIN SmallestPassingCount =>
          /\ SmallestPassingCount[n] = (2 * n) \div 3 + 1
          /\ \A observer \in LatestEvents, target \in StoredEvents :
                StronglySee(G, observer, target) <=>
                   Cardinality(AuthorsBetween(observer, target)) >= SmallestPassingCount[n]
          /\ (PushSucceeded /\ IsRegular(Pushed)) =>
                LET r == Max(round_of[SelfParent(Pushed)], round_of[OtherParent(Pushed)])
                IN  round_of[Pushed] = r + 1 <=>
                       Cardinality(AuthorsOfWitnessesStronglySeen(Pushed, r)) >=
                          SmallestPassingCount[n]
          /\ \A x \in DOMAIN witnesses :
                IsFamousWitness(G, x) = [ tag |-> "Ok", val |-> <<"Yes">> ] <=>
                   DecidesWith(x, SmallestPassingCount[n])

\* A graph of 7 members in which an event strongly sees another through
\* exactly 5 authors, and a witness is decided by exactly 5 equal votes
C27_Witness ==
    /\ Cardinality(DOMAIN peer_index) = 7
    /\ \E observer \in LatestEvents, target \in StoredEvents :
          /\ Cardinality(AuthorsBetween(observer, target)) = 5
          /\ StronglySee(G, observer, target)
    /\ \E x \in DOMAIN witnesses :
          /\ IsFamousWitness(G, x) = [ tag |-> "Ok", val |-> <<"Yes">> ]
          /\ ~DecidesWith(x, 6)

\* The length of a digest in bytes
DigestLen == 64

\* The byte of a digest of len bytes that holds the middle bit, and the
\* position of the bit in that byte
MiddleByteIndex(len) == ((len * 8) \div 2) \div 8

MiddleBitIndex(len) == ((len * 8) \div 2) % 8

\* The state of the loop of is_famous_witness over the voting rounds, for a
\* witness of round r, once the round at distance upto is done: tag "Votes"
\* with this_round_votes of that round, tag "Returned" when the call returned
\* in that round or before it, tag "NoRound" when round_index ends before it
RECURSIVE RecordedVotes(_, _, _, _, _)
RecordedVotes(g, r, d, prev_round_votes, upto) ==
    IF r + d + 1 > Len(g.round_index)
    THEN [ tag |-> "NoRound", votes |-> << >> ]
    ELSE
      LET voter_round     == r + d
          round_witnesses == { e \in g.round_index[voter_round + 1] : e \in DOMAIN g.witnesses }
          n               == MembersCount(g)
          yes(y)          == VotesFor(g, y, voter_round, prev_round_votes)
          no(y)           == VotesAgainst(g, y, voter_round, prev_round_votes)
          v(y)            == yes(y) >= no(y)
          t(y)            == Max(yes(y), no(y))
          this_round_votes ==
              [ y \in round_witnesses |->
                  IF d % g.coin_frequency > 0 \/ t(y) > ((2 * n) \div 3)
                  THEN v(y)
                  ELSE MiddleBit(y) ]
      IN  IF d % g.coin_frequency > 0 /\ \E y \in round_witnesses : t(y) > ((2 * n) \div 3)
          THEN [ tag |-> "Returned", votes |-> << >> ]
          ELSE IF d = upto
          THEN [ tag |-> "Votes", votes |-> this_round_votes ]
          ELSE RecordedVotes(g, r, d + 1, this_round_votes, upto)

\* The votes of the first round of the election of x: see(y, x) of every
\* event y of rounds[r + 1]
FirstVotes(x) ==
    [ y_hash \in round_index[round_of[x] + 2] |-> See(G, y_hash, x) ]

\* The loop state of the election of x after the round at distance d; after
\* distance 1 it holds the votes of the first round
VotesAfter(x, d) ==
    IF d = 1
    THEN [ tag |-> "Votes", votes |-> FirstVotes(x) ]
    ELSE RecordedVotes(G, round_of[x], 2, FirstVotes(x), d)

\* The distances of the voting rounds of the election of x that round_index
\* holds
VotingDistances(x) ==
    IF round_of[x] + 2 > Len(round_index)
    THEN {}
    ELSE 2 .. (Len(round_index) - round_of[x] - 1)

\* The coin rounds of the election of x that the loop reaches
CoinRounds(x) ==
    { d \in VotingDistances(x) :
        d % coin_frequency = 0 /\ VotesAfter(x, d - 1).tag = "Votes" }

\* The number of equal votes t and the majority value v of the voter y in
\* the round at distance d of the election of x
EqualVotes(x, y, d) ==
    Max(VotesFor(G, y, round_of[x] + d, VotesAfter(x, d - 1).votes),
        VotesAgainst(G, y, round_of[x] + d, VotesAfter(x, d - 1).votes))

MajorityVote(x, y, d) ==
    VotesFor(G, y, round_of[x] + d, VotesAfter(x, d - 1).votes) >=
       VotesAgainst(G, y, round_of[x] + d, VotesAfter(x, d - 1).votes)

\* The voters of the round at distance d
Voters(x, d) == round_index[round_of[x] + d + 1] \cap DOMAIN witnesses

\* is_famous_witness(x) returns a decision exactly when the loop returns in
\* one of the voting rounds
ReturnsInVotingRound(x) ==
    IsFamousWitness(G, x) \in { [ tag |-> "Ok", val |-> <<"Yes">> ],
                                 [ tag |-> "Ok", val |-> <<"No">> ] }
       <=> \E d \in VotingDistances(x) : VotesAfter(x, d).tag = "Returned"

\* C28 as stated: in a coin round of the election of a witness X, a voter Y
\* without a supermajority records the middle bit of the hash of X, bit 0 of
\* byte 32 of the 64 bytes; a voter with a supermajority records v; and the
\* call does not return in that round.
C28_CoinVoteFromWitnessHash ==
    /\ MiddleByteIndex(DigestLen) = 32
    /\ MiddleBitIndex(DigestLen) = 0
    /\ \A x \in DOMAIN witnesses :
          /\ ReturnsInVotingRound(x)
          /\ \A d \in CoinRounds(x) :
                /\ VotesAfter(x, d).tag = "Votes"
                /\ \A y \in Voters(x, d) :
                      VotesAfter(x, d).votes[y] =
                         IF EqualVotes(x, y, d) > (2 * Cardinality(DOMAIN peer_index)) \div 3
                         THEN MajorityVote(x, y, d)
                         ELSE MiddleBit(x)

\* C28, amended: in a coin round of the election of a witness X, a voter Y
\* without a supermajority records the middle bit of its own hash, the hash
\* of Y: bit 0 of byte 32 of the 64 bytes; a voter with a supermajority
\* records v; and the call does not return in that round.
C28_CoinVoteFromVoterHash ==
    /\ MiddleByteIndex(DigestLen) = 32
    /\ MiddleBitIndex(DigestLen) = 0
    /\ \A x \in DOMAIN witnesses :
          /\ ReturnsInVotingRound(x)
          /\ \A d \in CoinRounds(x) :
                /\ VotesAfter(x, d).tag = "Votes"
                /\ \A y \in Voters(x, d) :
                      VotesAfter(x, d).votes[y] =
                         IF EqualVotes(x, y, d) > (2 * Cardinality(DOMAIN peer_index)) \div 3
                         THEN MajorityVote(x, y, d)
                         ELSE MiddleBit(y)

\* is_famous_witness was called for a witness X whose election has a coin
\* round with a voter Y without a supermajority, and the middle bits of the
\* hashes of X and Y differ
C28_Witness ==
    /\ ret.op = "is_famous_witness"
    /\ ret.tag = "Ok"
    /\ \E d \in CoinRounds(ret.args[1]) :
          \E y \in Voters(ret.args[1], d) :
             /\ EqualVotes(ret.args[1], y, d) <= (2 * Cardinality(DOMAIN peer_index)) \div 3
             /\ MiddleBit(y) # MiddleBit(ret.args[1])
             /\ VotesAfter(ret.args[1], d).votes[y] = MiddleBit(y)

\* C29: in a graph with coin_frequency 1, is_famous_witness returns Undecided
\* for every witness and NotWitness for every other event, never Yes or No;
\* and every voting round of an election is a coin round.
C29_CoinFrequencyOneNeverDecides ==
    coin_frequency = 1 =>
       \A h \in StoredEvents :
          /\ IsFamousWitness(G, h) =
                IF h \in DOMAIN witnesses
                THEN [ tag |-> "Ok", val |-> <<"Undecided">> ]
                ELSE [ tag |-> "Err", val |-> <<"NotWitness">> ]
          /\ h \in DOMAIN witnesses => CoinRounds(h) = VotingDistances(h)

\* With coin_frequency 1, is_famous_witness returned Undecided for a witness
\* whose election has a voter with a supermajority
C29_Witness ==
    /\ coin_frequency = 1
    /\ ret.op = "is_famous_witness"
    /\ ret.val = <<"Undecided">>
    /\ \E d \in VotingDistances(ret.args[1]) :
          \E y \in Voters(ret.args[1], d) :
             EqualVotes(ret.args[1], y, d) > (2 * Cardinality(DOMAIN peer_index)) \div 3

\* C30: a call of push_node or decide_fame_for_witness, successful or not,
\* keeps every stored event in the store with its parents and its author,
\* and round_of returns for it what it returned before the call: the round
\* cached when the event was pushed.
C30_EventsAndRoundsStable ==
    [][ \A h \in StoredEvents :
           /\ h \in DOMAIN all_events'
           /\ all_events'[h].kind = all_events[h].kind
           /\ all_events'[h].author = all_events[h].author
           /\ h \in DOMAIN round_of
           /\ RoundOf(G', h) = round_of[h] ]_vars

\* A push failed after decide_fame_for_witness recorded a decision and a
\* genesis joined a graph of several rounds: round_of still returns the
\* cached round 0 of that genesis, which rounds[0] does not hold
C30_Witness ==
    /\ PushFailed
    /\ Decided # {}
    /\ \E h \in StoredEvents :
          /\ IsGenesis(h)
          /\ h \notin round_index[1]
          /\ RoundOf(G, h) = 0

\* The number of times a hash occurs in a Vec
Occurrences(seq, h) == Cardinality({ i \in 1 .. Len(seq) : seq[i] = h })

\* C31: the child pointers mirror the parent pointers.  For every regular
\* event E, self_child of its self parent is E and E occurs exactly once in
\* other_children of its other parent; and every hash in a child pointer of
\* an event P is a stored regular event with P as that parent.
C31_ChildPointersMirrorParents ==
    /\ \A e \in StoredEvents :
          IsRegular(e) =>
             /\ all_events[SelfParent(e)].self_child = Some(e)
             /\ Occurrences(all_events[OtherParent(e)].other_children, e) = 1
    /\ \A p \in StoredEvents :
          /\ all_events[p].self_child # None =>
                LET c == all_events[p].self_child[1]
                IN  c \in StoredEvents /\ IsRegular(c) /\ SelfParent(c) = p
          /\ \A c \in SeqToSet(all_events[p].other_children) :
                c \in StoredEvents /\ IsRegular(c) /\ OtherParent(c) = p

\* A push succeeded in a graph with an event that is the other parent of two
\* events and an event whose two parents are one event
C31_Witness ==
    /\ PushSucceeded
    /\ \E p \in StoredEvents : Len(all_events[p].other_children) = 2
    /\ \E e \in StoredEvents : IsRegular(e) /\ SelfParent(e) = OtherParent(e)

\* ------------------------------------------------------------------------
\* The ancestry iterator, one call of next() at a time.  The iterator borrows
\* the store, so nothing is pushed while it lives.  ret holds the iterator
\* and the number of items it has yielded.
\* ------------------------------------------------------------------------

\* The most calls of next() that return an item which are followed
MaxYielded == 20

\* Graph::iter on a stored event
CallIter(event_hash) ==
    /\ Running
    /\ JustBuilt
    /\ ret' = [ op |-> "iter", args |-> <<event_hash>>, tag |-> "Some",
                val |-> [ it |-> GraphIter(all_events, event_hash), yielded |-> 0 ] ]
    /\ UNCHANGED <<graphState, self_id, coin_frequency>>

\* EventIter::next: Some(event) while the stack holds an event, None after
CallNext ==
    /\ ret.op \in {"iter", "next"}
    /\ ret.tag = "Some"
    /\ ret.val.yielded < MaxYielded
    /\ ret' = IF ret.val.it.node_list = << >>
              THEN [ ret EXCEPT !.op = "next", !.tag = "None" ]
              ELSE [ ret EXCEPT !.op = "next",
                                !.val = [ it      |-> IterAfterNext(all_events, ret.val.it),
                                          yielded |-> ret.val.yielded + 1 ] ]
    /\ UNCHANGED <<graphState, self_id, coin_frequency>>

InitIter == InitTest({TestCoinFrequency})

\* A graph is built, an iterator is made for one of its events, and next()
\* is called on it
NextIter ==
    \/ /\ JustBuilt
       /\ \E author \in Peers : CallPushNode(UnitPayload, PushGenesis, author)
    \/ /\ JustBuilt
       /\ \E author \in Peers, other_parent \in DOMAIN all_events :
            CallPushNode(UnitPayload, PushRegular(other_parent), author)
    \/ \E event_hash \in DOMAIN all_events : CallIter(event_hash)
    \/ CallNext

\* next() is called again as long as it returns an item
SpecIter == InitIter /\ [][NextIter]_vars /\ WF_vars(CallNext)

\* An iterator is live
Iterating == ret.op \in {"iter", "next"}

\* next() has returned None
Exhausted == ret.op = "next" /\ ret.tag = "None"

\* C32: for every stored start event, calling next() again and again gets
\* None after finitely many calls, and with N events in the store the number
\* of items yielded before is at most N * (N + 1) / 2.
C32_IterTerminates ==
    /\ [](Iterating =>
             2 * ret.val.yielded <= Cardinality(StoredEvents) * (Cardinality(StoredEvents) + 1))
    /\ (ret.op = "iter") ~> Exhausted

\* next() has returned None after the iterator yielded more items than the
\* store holds events
C32_Witness ==
    /\ Exhausted
    /\ ret.val.yielded > Cardinality(StoredEvents)

\* C33: every hash in hand has a compact field that is the xor-fold of the
\* four quarters of its bytes, so hashes that compare equal have equal compact
\* fields, and a hash read back from its serialised bytes equals the hash
\* written and has the same compact field.
C33_CompactIsXorFold ==
    /\ \A h \in HashesInHand : h.compact = CalcCompact(h.inner)
    /\ \A h1 \in HashesInHand, h2 \in HashesInHand :
          HashEq(h1, h2) => h1.compact = h2.compact
    /\ ret.op = "deserialize" =>
          /\ HashEq(ret.val, ret.args[2])
          /\ ret.val.compact = ret.args[2].compact

\* ------------------------------------------------------------------------
\* event::SelfChild: the self-children of an event.
\* HonestParent(Option<Hash>) or ForkingParent(Vec<Hash>), as [tag, val].
\* ------------------------------------------------------------------------

\* The number of hashes that can be given as a child
NumChildHashes == 3

\* The longest list of self-children that add_child is still applied to
MaxSelfChildren == 3

ChildHashes == 1 .. NumChildHashes

HonestParent(child_opt) == [ tag |-> "HonestParent", val |-> child_opt ]

ForkingParent(children_list) == [ tag |-> "ForkingParent", val |-> children_list ]

\* impl Into<Vec<Hash>> for SelfChild
SelfChildIntoVec(self) == self.val

\* impl From<Vec<Hash>> for SelfChild that keeps every non-empty list as a list
SelfChildFromVecNeverHonest(value) ==
    IF Len(value) = 0 THEN HonestParent(None) ELSE ForkingParent(value)

\* impl From<Vec<Hash>> for SelfChild
SelfChildFromVec(value) ==
    CASE Len(value) = 0 -> HonestParent(None)
      [] Len(value) = 1 -> HonestParent(Some(value[1]))
      [] OTHER          -> ForkingParent(value)

\* add_child that replaces the child of an honest parent
AddChildForgetsFirst(self, child) ==
    IF self.tag = "HonestParent"
    THEN IF self.val = None
         THEN [ self |-> HonestParent(Some(child)), dishonesty |-> FALSE ]
         ELSE [ self |-> ForkingParent(<<child>>), dishonesty |-> TRUE ]
    ELSE [ self |-> ForkingParent(Append(self.val, child)), dishonesty |-> TRUE ]

\* SelfChild::add_child: the value after the call and the value returned
AddChild(self, child) ==
    IF self.tag = "HonestParent"
    THEN IF self.val = None
         THEN [ self |-> HonestParent(Some(child)), dishonesty |-> FALSE ]
         ELSE [ self |-> ForkingParent(<<child, self.val[1]>>), dishonesty |-> TRUE ]
    ELSE [ self |-> ForkingParent(Append(self.val, child)), dishonesty |-> TRUE ]

\* filter(|h| h != child) on the list of self-children
RECURSIVE SeqWithout(_, _)
SeqWithout(seq, child) ==
    IF seq = << >>
    THEN << >>
    ELSE IF Head(seq) = child
         THEN SeqWithout(Tail(seq), child)
         ELSE <<Head(seq)>> \o SeqWithout(Tail(seq), child)

\* SelfChild::with_child_removed
WithChildRemoved(self, child) ==
    SelfChildFromVec(SeqWithout(SelfChildIntoVec(self), child))

\* EventWrapper::new: an event has no self-child at first
InitSelfChild ==
    /\ LET g == GraphNew(0, UnitPayload, TestCoinFrequency)
       IN  /\ all_events  = g.all_events
           /\ peer_index  = g.peer_index
           /\ round_index = g.round_index
           /\ witnesses   = g.witnesses
           /\ round_of    = g.round_of
    /\ self_id = 0
    /\ coin_frequency = TestCoinFrequency
    /\ ret = [ op |-> "new", args |-> << >>, tag |-> "Ok",
               val |-> <<HonestParent(None)>> ]

\* The SelfChild value the last call left
SelfChildNow == ret.val[1]

\* self_child.add_child(child)
CallAddChild(child) ==
    /\ Len(SelfChildIntoVec(SelfChildNow)) < MaxSelfChildren
    /\ LET after == AddChild(SelfChildNow, child)
       IN  ret' = [ op |-> "add_child", args |-> <<SelfChildNow, child>>,
                    tag |-> "Ok", val |-> <<after.self, after.dishonesty>> ]
    /\ UNCHANGED <<graphState, self_id, coin_frequency>>

\* self_child.with_child_removed(&child)
CallWithChildRemoved(child) ==
    /\ ret' = [ op |-> "with_child_removed", args |-> <<SelfChildNow, child>>,
                tag |-> "Ok", val |-> <<WithChildRemoved(SelfChildNow, child)>> ]
    /\ UNCHANGED <<graphState, self_id, coin_frequency>>

NextSelfChild ==
    \/ \E child \in ChildHashes : CallAddChild(child)
    \/ \E child \in ChildHashes : CallWithChildRemoved(child)

SpecSelfChild == InitSelfChild /\ [][NextSelfChild]_vars

\* C34: add_child on HonestParent(None) gives HonestParent(Some(c)) and
\* returns false; on HonestParent(Some(x)) it gives a ForkingParent of c and x
\* and returns true; on a ForkingParent it appends c and returns true; the
\* value returned is true exactly when the parent holds two or more
\* self-children after the call.
C34_AddChild ==
    ret.op = "add_child" =>
       LET self       == ret.args[1]
           c          == ret.args[2]
           after      == ret.val[1]
           dishonesty == ret.val[2]
       IN  /\ self = HonestParent(None) =>
                 after = HonestParent(Some(c)) /\ dishonesty = FALSE
           /\ (self.tag = "HonestParent" /\ self.val # None) =>
                 /\ after.tag = "ForkingParent"
                 /\ Len(after.val) = 2
                 /\ SeqToSet(after.val) = {c, self.val[1]}
                 /\ dishonesty = TRUE
           /\ self.tag = "ForkingParent" =>
                 after = ForkingParent(Append(self.val, c)) /\ dishonesty = TRUE
           /\ dishonesty <=> Len(SelfChildIntoVec(after)) >= 2

\* add_child was called on an honest parent that had a child, and on a
\* forking parent
C34_Witness ==
    /\ ret.op = "add_child"
    /\ ret.args[1].tag = "ForkingParent"
    /\ Len(ret.args[1].val) = 2
    /\ ret.val[2] = TRUE
    /\ ret.val[1].val[3] # ret.val[1].val[1]

\* with_child_removed returns HonestParent(None) when no child remains,
\* HonestParent(Some) when one remains and ForkingParent when more remain
RemovalIsCanonical ==
    ret.op = "with_child_removed" =>
       LET remaining == SeqWithout(SelfChildIntoVec(ret.args[1]), ret.args[2])
           after     == ret.val[1]
       IN  /\ Len(remaining) = 0 => after = HonestParent(None)
           /\ Len(remaining) = 1 => after = HonestParent(Some(remaining[1]))
           /\ Len(remaining) >= 2 => after = ForkingParent(remaining)

RECURSIVE SelfChain(_)
SelfChain(h) ==
    IF IsGenesis(h) THEN {h} ELSE {h} \cup SelfChain(SelfParent(h))

\* The stored events that name h as their self_parent
SelfChildrenOf(h) == { e \in StoredEvents : IsRegular(e) /\ SelfParent(e) = h }

\* The last call was a push_node of a Regular event
RegularPush == ret.op = "push_node" /\ ret.args[2][1] = "Regular"

\* C35: no stored event has two self-children and the events of an author
\* are the self-parent chain of the author's latest event; a push_node of a
\* Regular event that fails returns PeerNotFound, or NoParent with the hash of
\* an other_parent that is not in the store.
C35_SingleChainPerAuthor ==
    /\ \A h \in StoredEvents : Cardinality(SelfChildrenOf(h)) <= 1
    /\ \A author \in DOMAIN peer_index :
          { e \in StoredEvents : all_events[e].author = author }
             = SelfChain(peer_index[author].latest_event)
    /\ (RegularPush /\ PushFailed) =>
          \/ ret.val = <<"PeerNotFound", ret.args[3]>>
          \/ /\ ret.val = <<"NoParent", ret.args[2][2]>>
             /\ ret.args[2][2] \notin StoredEvents

\* A Regular push failed for a missing other_parent after its author had
\* made a chain of three events
C35_Witness ==
    /\ RegularPush
    /\ PushFailed
    /\ ret.val[1] = "NoParent"
    /\ ret.args[3] \in DOMAIN peer_index
    /\ Cardinality(SelfChain(peer_index[ret.args[3]].latest_event)) >= 3

\* C36: the round of a regular event is the larger round of its parents or
\* one more; every cached round is an index of round_index and no set of
\* round_index is empty, so determine_round finds round_index[r] for the
\* larger round r of the parents of every regular event, and no call of
\* is_famous_witness or decide_fame_for_witness on a stored event panics.
C36_RoundsMonotoneAndBounded ==
    /\ \A e \in StoredEvents :
          IsRegular(e) =>
             LET r == Max(RoundOf(G, SelfParent(e)), RoundOf(G, OtherParent(e)))
             IN  /\ r <= RoundOf(G, e)
                 /\ RoundOf(G, e) <= r + 1
                 /\ r + 1 <= Len(round_index)
    /\ \A e \in DOMAIN round_of :
          round_of[e] >= 0 /\ round_of[e] < Len(round_index)
    /\ \A i \in 1 .. Len(round_index) : round_index[i] # {}
    /\ (/\ ret.op \in {"is_famous_witness", "decide_fame_for_witness"}
        /\ ret.args[1] \in StoredEvents) => ret.tag # "Panic"

\* A regular event was pushed into a round above that of its parents, and
\* another regular event has the round of its parents
C36_Witness ==
    /\ PushSucceeded
    /\ IsRegular(Pushed)
    /\ RoundOf(G, Pushed) = 1
    /\ RoundOf(G, SelfParent(Pushed)) = 0
    /\ RoundOf(G, OtherParent(Pushed)) = 0
    /\ Len(round_index) = 2
    /\ \E e \in StoredEvents : IsRegular(e) /\ RoundOf(G, e) = 0

\* The witnesses of an author with a given round: the events for which
\* determine_witness holds, and those in the registry
WitnessesOfIn(author, r) ==
    { e \in StoredEvents :
        /\ all_events[e].author = author
        /\ RoundOf(G, e) = r
        /\ (DetermineWitness(G, e) \/ e \in DOMAIN witnesses) }

\* C37: an author has at most one witness with a given round, and that
\* witness is a self-ancestor of every event of the author with that round.
C37_OneWitnessPerAuthorAndRound ==
    \A author \in DOMAIN peer_index, r \in 0 .. (Len(round_index) - 1) :
       /\ Cardinality(WitnessesOfIn(author, r)) <= 1
       /\ \A w \in WitnessesOfIn(author, r), e \in StoredEvents :
             (all_events[e].author = author /\ RoundOf(G, e) = r) => w \in SelfChain(e)

\* An author has a witness of round 0 and a witness of round 1, and a
\* further event with the round of one of them
C37_Witness ==
    \E author \in DOMAIN peer_index :
       /\ WitnessesOfIn(author, 0) # {}
       /\ WitnessesOfIn(author, 1) # {}
       /\ \E e \in StoredEvents :
             /\ all_events[e].author = author
             /\ e \notin DOMAIN witnesses

\* C38: a successful push_node leaves ancestor, see and strongly_see as they
\* were for every pair of events that were in the store before the call, also
\* when the event pushed is the genesis of a new author.
C38_RelationsStable ==
    [][ (ret'.op = "push_node" /\ ret'.tag = "Ok") =>
           \A x \in StoredEvents, y \in StoredEvents :
              /\ Ancestor(G', x, y) = Ancestor(G, x, y)
              /\ See(G', x, y) = See(G, x, y)
              /\ StronglySee(G', x, y) = StronglySee(G, x, y) ]_vars

\* ------------------------------------------------------------------------
\* The first implementation (lib.rs): events are Genesis{creator} or
\* Update{creator, self_parent, other_parent, txs, witness}, kept in an
\* EventGraph from hash to event.  all_events holds the EventGraph and
\* round_of the event_rounds of the test's generate().
\* ------------------------------------------------------------------------

\* The largest num_nodes a Context is made with
MaxNumNodes == 3

LegacyGenesis(creator) == [ creator |-> creator, parents |-> << >> ]

LegacyUpdate(creator, self_parent, other_parent) ==
    [ creator |-> creator, parents |-> <<self_parent, other_parent>> ]

\* Event::hash: the digest of the serialized event, one for each event
LegacyHash(event) == <<event.creator, event.parents>>

IsLegacyUpdate(event) == event.parents # << >>

\* Context
Context(events, num_nodes) == [ events |-> events, num_nodes |-> num_nodes ]

\* Event::determine_round
RECURSIVE LegacyDetermineRound(_, _)
LegacyDetermineRound(event, events) ==
    IF ~IsLegacyUpdate(event)
    THEN 1
    ELSE Max(LegacyDetermineRound(events[event.parents[1]], events),
             LegacyDetermineRound(events[event.parents[2]], events))

\* Event::ancestor
RECURSIVE LegacyAncestor(_, _, _)
LegacyAncestor(x, y, events) ==
    IF LegacyHash(x) = LegacyHash(y)
    THEN TRUE
    ELSE IF IsLegacyUpdate(x)
    THEN \/ LegacyAncestor(events[x.parents[1]], y, events)
         \/ LegacyAncestor(events[x.parents[2]], y, events)
    ELSE FALSE

\* Event::see
LegacySee(x, y, events) == LegacyAncestor(x, y, events)

\* Event::strongly_see_aux: the value returned and creators_seen after the call
RECURSIVE StronglySeeAux(_, _, _, _)
StronglySeeAux(x, y, context, creators_seen) ==
    IF IsLegacyUpdate(x) /\ LegacyHash(x) # LegacyHash(y)
    THEN LET inserted == creators_seen \cup {LegacyHash(x)}
             sp == StronglySeeAux(context.events[x.parents[1]], y, context, inserted)
             op == StronglySeeAux(context.events[x.parents[2]], y, context, sp.creators_seen)
         IN  [ returned      |-> Cardinality(op.creators_seen) >= ((2 * context.num_nodes) \div 3),
               creators_seen |-> op.creators_seen ]
    ELSE [ returned |-> FALSE, creators_seen |-> creators_seen ]

\* Event::strongly_see
LegacyStronglySee(x, y, context) == StronglySeeAux(x, y, context, {}).returned

\* The events of tests::generate, in the order they are inserted
LegacyTestEvents ==
    LET genesis  == LegacyGenesis("c")
        genesis1 == LegacyGenesis("b")
        e1 == LegacyUpdate("a", LegacyHash(genesis), LegacyHash(genesis1))
        e2 == LegacyUpdate("b", LegacyHash(genesis), LegacyHash(e1))
        e3 == LegacyUpdate("c", LegacyHash(genesis), LegacyHash(e1))
    IN  << genesis, genesis1, e1, e2, e3 >>

\* The hash of an event of tests::generate: 1 genesis, 2 genesis1, 3 e1, 4 e2, 5 e3
LegacyTest(i) == LegacyHash(LegacyTestEvents[i])

\* The empty EventGraph and event_rounds
InitLegacy ==
    /\ all_events  = << >>
    /\ round_of    = << >>
    /\ peer_index  = << >>
    /\ round_index = << >>
    /\ witnesses   = << >>
    /\ self_id = 0
    /\ coin_frequency = TestCoinFrequency
    /\ ret = [ op |-> "new", args |-> << >>, tag |-> "Ok", val |-> << >> ]

\* events.insert and event_rounds.insert of tests::generate for the next event
LegacyInsert ==
    /\ Cardinality(DOMAIN all_events) < Len(LegacyTestEvents)
    /\ LET event == LegacyTestEvents[Cardinality(DOMAIN all_events) + 1]
       IN  /\ round_of' = MapInsert(round_of, LegacyHash(event),
                                    LegacyDetermineRound(event, all_events))
           /\ all_events' = MapInsert(all_events, LegacyHash(event), event)
           /\ ret' = [ op |-> "insert", args |-> <<event>>, tag |-> "Ok",
                       val |-> <<LegacyHash(event)>> ]
    /\ UNCHANGED <<peer_index, round_index, witnesses, self_id, coin_frequency>>

\* Event::strongly_see on two events of the graph, with a Context of num_nodes
CallLegacyStronglySee(x, y, num_nodes) ==
    /\ ret' = [ op |-> "strongly_see", args |-> <<x, y, num_nodes>>, tag |-> "Ok",
                val |-> <<LegacyStronglySee(all_events[x], all_events[y],
                                            Context(all_events, num_nodes))>> ]
    /\ UNCHANGED <<graphState, self_id, coin_frequency>>

NextLegacy ==
    \/ LegacyInsert
    \/ \E x \in DOMAIN all_events, y \in DOMAIN all_events, num_nodes \in 1 .. MaxNumNodes :
          CallLegacyStronglySee(x, y, num_nodes)

SpecLegacy == InitLegacy /\ [][NextLegacy]_vars

\* The creators of the events that x sees and that see y
LegacyCreatorsBetween(x, y) ==
    { all_events[e].creator :
        e \in { h \in DOMAIN all_events :
                  /\ LegacySee(all_events[x], all_events[h], all_events)
                  /\ LegacySee(all_events[h], all_events[y], all_events) } }

\* C40: strongly_see(x, y, context) returns true exactly when x sees events
\* of more than 2n/3 creators that each see y, n being context.num_nodes, and
\* it returns true for e2 and genesis of the test graph with n = 3.
C40_LegacyStronglySee ==
    ret.op = "strongly_see" =>
       LET x == ret.args[1]
           y == ret.args[2]
           n == ret.args[3]
       IN  /\ ret.val[1] = (3 * Cardinality(LegacyCreatorsBetween(x, y)) > 2 * n)
           /\ (x = LegacyTest(4) /\ y = LegacyTest(1) /\ n = 3) => ret.val[1] = TRUE


====
